---- MODULE Spec2Model ----
(***************************************************************************)
(* Stat-trader: the event pipeline of the football trading platform.       *)
(*                                                                         *)
(*   PricingEngine      src/app/pricing_engine.py                          *)
(*   process_statsbomb  src/app/data_provider.py                           *)
(*   LiveMatchFeed      src/app/api_football_client.py                     *)
(*   broadcast, ws_prices, pricing_callback   src/app/main.py              *)
(*   Simulator          src/app/simulator.py                               *)
(*   LiveDataProvider   src/app/data_provider.py                           *)
(*   LiveDataFeed       src/app/statsbomb_client.py                        *)
(*                                                                         *)
(* Money is counted in integers.  A stored price is a number of cents      *)
(* (1/100), because apply_stat stores round(x, 2).  The value before       *)
(* rounding is a number of thousandths ("milli"): the injury factor 0.7    *)
(* of a price in cents and the minute weight 0.1 are both whole numbers    *)
(* of thousandths.                                                         *)
(***************************************************************************)
EXTENDS Integers, Sequences, FiniteSets, TLC

VARIABLES
    \* ---- PricingEngine ------------------------------------------------
    base_price,     \* PricingEngine.base_price, in cents
    prices,         \* PricingEngine.prices: player id -> price in cents
    \* ---- the calls of apply_stat (coroutines), numbered by invocation --
    pc,             \* call -> "idle" | "sleep" (at await asyncio.sleep(0)) | "done"
    stat,           \* call -> the StatUpdate it was given (NoStat before the call)
    new_price,      \* call -> its local new_price, in milli (before rounding)
    stored,         \* call -> the price (cents) its line 27 wrote
    ret,            \* call -> the value it returned (line 30)
    \* ---- one run of process_statsbomb ---------------------------------
    data,           \* the payload it was called with (NoData before the call)
    by_player,      \* its dict by_player, in insertion order
    emit_i,         \* how many StatUpdates the emit loop has handed to callback
    npc,            \* "idle" | "emit" (in the emit loop) | "await" (inside callback) | "done"
    results,        \* what the callback has been called with, in order
    \* ---- the caller that feeds a batch through pricing -----------------
    pass,           \* how many times the payload has been fed so far
    first_prices,   \* the price map when the first pass had finished
    \* ---- LiveMatchFeed -------------------------------------------------
    lm_running,         \* LiveMatchFeed._running
    lm_pc,              \* where the task of _poll_loop stands (see below)
    fixture_ids,        \* the argument start() gave _poll_loop: <<>> is None, the live mode
    lm_fids,            \* the fixtures this cycle iterates over
    lm_fi,              \* index of the fixture in hand
    lm_fid,             \* _process_fixture: its argument fixture_id
    lm_events,          \* _process_fixture: the events last fetched
    lm_ei,              \* _process_fixture: index of the event in hand
    lm_cycle,           \* cycles of the poll loop begun so far
    processed_events,   \* LiveMatchFeed.processed_events, the seen-set
    sent,               \* the messages handed to the broadcast callback, in order
    lm_held,            \* LiveMatchFeed._task is the task lm_pc follows
    lm_failed,          \* fixtures whose _process_fixture caught an error this cycle
    \* ---- main.py: subscribers and broadcast -----------------------------
    clients,        \* the list `clients`, sockets by number
    ws_pc,          \* socket -> where its ws_prices handler stands
    conn,           \* socket -> is its connection open
    inbox,          \* socket -> the messages it has been sent, in order
    bc_pc,          \* broadcast: "idle" | "send" (in ws.send_json) | "done" | "raised"
    bc_i,           \* broadcast: position of the iterator of `for ws in clients`
    bc_ws,          \* broadcast: the socket of the send in hand
    bc_ok,          \* broadcast: will that send return (TRUE) or raise
    to_remove,      \* broadcast: its list to_remove
    bc_n,           \* number of the broadcast call
    bc_at_call,     \* `clients` as it was when broadcast was called
    bc_called,      \* the sockets this broadcast has called send_json on
    \* ---- Simulator and the application that owns it ---------------------
    sim_players,    \* Simulator.players (the ids)
    sim_running,    \* Simulator._running
    sim_pc,         \* where the task of _run stands ("none": no task)
    sim_cancel,     \* cancel() was called on the task and not yet delivered
    sim_stat,       \* the stat of the cycle in hand
    sim_ticks,      \* cycles begun so far
    app_pc,         \* "init" | "up" (startup has returned) | "down" (shutdown has)
    \* ---- LiveDataProvider ----------------------------------------------
    ldp_running,    \* LiveDataProvider.running
    ldp_tasks,      \* the tasks start() has created, in order
    ldp_task,       \* LiveDataProvider.task: the number of the task it holds, 0 for None
    ldp_stop_pc,    \* stop(): "none" | "await" (line 157) | "returned"
    \* ---- pricing_callback, invoked by several sources at once ----------
    cb_price,       \* call -> the price its price_update message carries
    \* ---- LiveDataFeed ---------------------------------------------------
    ldf_running,    \* LiveDataFeed._running
    ldf_events,     \* LiveDataFeed.events
    ldf_index,      \* LiveDataFeed.event_index
    ldf_pc,         \* where the task LiveDataFeed._task holds stands
    ldf_cancel,     \* cancel() was called on that task and not yet delivered
    ldf_rounds,     \* how many times _stream_events has restarted the list
    ldf_log,        \* positions of the events handed to _process_event, in order
    ldf_sent,       \* positions of the events handed to broadcast_callback
    ldf_stop_pc     \* stop(): "none" | "await" (line 225) | "returned" | "raised"

engineVars == <<base_price, prices, pc, stat, new_price, stored, ret>>
normVars == <<data, by_player, emit_i, npc, results>>
pipeVars == <<pass, first_prices>>
pollVars == <<lm_running, lm_pc, fixture_ids, lm_fids, lm_fi, lm_fid, lm_events, lm_ei, lm_cycle,
              processed_events, sent, lm_held, lm_failed>>
hubVars == <<clients, ws_pc, conn, inbox, bc_pc, bc_i, bc_ws, bc_ok, to_remove, bc_n, bc_at_call,
             bc_called>>
simVars == <<sim_players, sim_running, sim_pc, sim_cancel, sim_stat, sim_ticks, app_pc>>
provVars == <<ldp_running, ldp_tasks, ldp_task, ldp_stop_pc>>
appVars == <<hubVars, simVars, provVars>>
cbVars == <<cb_price>>
feedVars == <<ldf_running, ldf_events, ldf_index, ldf_pc, ldf_cancel, ldf_rounds, ldf_log,
              ldf_sent, ldf_stop_pc>>
vars == <<engineVars, normVars, pipeVars, pollVars, appVars, cbVars, feedVars>>

----------------------------------------------------------------------------
(* Bounds and input domains                                                *)

NumCalls == 2                      \* invocations of apply_stat in one run
Calls == 1..NumCalls

Pids == {"1", "2"}                 \* player ids, as the strings the engine keys on

\* PricingEngine(base_price=...): the default 1000.0; 1000.05, from which
\* one injury penalty lands on a half cent (700.035); and 0.0, the least
\* base price that is not negative.
DefaultBase == 100000              \* base_price: float = 1000.0
BasePrices == {DefaultBase, 100005, 0}

NoStat == [player_id |-> "", goals |-> 0, assists |-> 0, minutes |-> 0, injury |-> FALSE]
None == 0 - 1                      \* "no value yet" for stored / ret / new_price

\* StatUpdate (src/app/models.py): the values the calls are given.
StatUpdates ==
    [player_id : Pids, goals : {0, 1}, assists : {0, 1}, minutes : {0, 45}, injury : BOOLEAN]

----------------------------------------------------------------------------
(* PricingEngine                                                           *)

\* The weights of apply_stat, in cents per unit.
GoalWeight == 10000                \* 100.0 * goals
AssistWeight == 5000               \* 50.0 * assists
MinuteWeight == 10                 \* 0.1 * minutes
InjuryFactorTenths == 7            \* price * 0.7

\* round(x, 2) of a non-negative x given in milli.  Off a half cent the
\* nearest cent is the result whatever the float error; on an exact half
\* cent (x.xx5) the binary value of the float decides and either
\* neighbour can come out (round(1000.05*0.7, 2) = 700.03,
\* round(1000.15*0.7, 2) = 700.11), so both are possible results.
Round2(milli) ==
    IF milli % 10 = 5
    THEN {milli \div 10, (milli \div 10) + 1}
    ELSE {(milli + 5) \div 10}

\* _ensure, on the price map
Ensure_reset(pr, pid) ==
    [q \in (DOMAIN pr) \cup {pid} |-> IF q = pid THEN base_price ELSE pr[q]]

Ensure(pr, pid) ==
    IF pid \in DOMAIN pr THEN pr ELSE pr @@ (pid :> base_price)

\* apply_stat lines 21-26: delta, then the penalty on price, then the sum.
\* price in cents, result in milli.
NewPriceMilli_penalty_after_delta(price, s) ==
    LET delta == (GoalWeight * s.goals + AssistWeight * s.assists) + MinuteWeight * s.minutes
    IN  IF s.injury THEN InjuryFactorTenths * (price + delta) ELSE 10 * (price + delta)

\* the same with the delta taken off the price
NewPriceMilli_delta_subtracted(price, s) ==
    LET delta == (GoalWeight * s.goals + AssistWeight * s.assists) + MinuteWeight * s.minutes
        p     == IF s.injury THEN InjuryFactorTenths * price ELSE 10 * price
    IN  p - 10 * delta

NewPriceMilli(price, s) ==
    LET delta == (GoalWeight * s.goals + AssistWeight * s.assists) + MinuteWeight * s.minutes
        p     == IF s.injury THEN InjuryFactorTenths * price ELSE 10 * price
    IN  p + 10 * delta

\* apply_stat lines 19-27 on the price map: resolve, compute, store.  The
\* price maps the store can leave (two on a half-cent tie, else one).
StoreResults(pr, s) ==
    LET pid     == s.player_id
        ensured == Ensure(pr, pid)
        np      == NewPriceMilli(ensured[pid], s)
    IN  {[ensured EXCEPT ![pid] = r] : r \in Round2(np)}

\* apply_stat from its first line to the await of line 29: one uninterrupted
\* run of the coroutine (resolve, compute, store), calls numbered by start.
apply_stat_head(t, s) ==
    /\ pc[t] = "idle"
    /\ IF t = 1 THEN TRUE ELSE pc[t - 1] # "idle"
    /\ \E pr \in StoreResults(prices, s) :
         /\ prices' = pr
         /\ stored' = [stored EXCEPT ![t] = pr[s.player_id]]
    /\ new_price' = [new_price EXCEPT ![t] = NewPriceMilli(Ensure(prices, s.player_id)[s.player_id], s)]
    /\ stat' = [stat EXCEPT ![t] = s]
    /\ pc' = [pc EXCEPT ![t] = "sleep"]
    /\ UNCHANGED <<base_price, ret>>
    /\ UNCHANGED <<normVars, pipeVars, pollVars, appVars, cbVars, feedVars>>

\* the same return step with line 27 wrongly placed after the await
apply_stat_return_late_store(t) ==
    /\ pc[t] = "sleep"
    /\ prices' = [prices EXCEPT ![stat[t].player_id] = stored[t]]
    /\ ret' = [ret EXCEPT ![t] = stored[t]]
    /\ pc' = [pc EXCEPT ![t] = "done"]
    /\ UNCHANGED <<base_price, stat, new_price, stored>>
    /\ UNCHANGED <<normVars, pipeVars, pollVars, appVars, cbVars, feedVars>>

\* apply_stat resumed after asyncio.sleep(0): return self.prices[pid]
apply_stat_return(t) ==
    /\ pc[t] = "sleep"
    /\ ret' = [ret EXCEPT ![t] = prices[stat[t].player_id]]
    /\ pc' = [pc EXCEPT ![t] = "done"]
    /\ UNCHANGED <<base_price, prices, stat, new_price, stored>>
    /\ UNCHANGED <<normVars, pipeVars, pollVars, appVars, cbVars, feedVars>>

----------------------------------------------------------------------------
(* process_statsbomb: the payloads                                         *)

MaxEvents == 2                     \* events in one payload

\* Text is a sequence of characters, so that lower-casing and substring
\* search are computed, not assumed.
T_OwnGoal == <<"O", "w", "n", " ", "G", "o", "a", "l">>
T_Injured == <<"I", "N", "J", "U", "R", "E", "D">>
T_Pass    == <<"P", "a", "s", "s">>
T_Assist  == <<"A", "s", "s", "i", "s", "t">>
T_Foul    == <<"F", "o", "u", "l">>
TypeNames == {T_OwnGoal, T_Injured, T_Pass}
Roles     == {T_Assist, T_Foul}

\* ids as the provider gives them: None (no player on the event), or an
\* integer; 0 is an id Python treats as false.
PrimaryRefs == {None, 0, 1, 2}
RelatedRefs == {2}
Minutes == {1, 2}

RelatedLists ==
    {<<>>} \cup {<<[role |-> r, player |-> q]>> : r \in Roles, q \in RelatedRefs}

\* One raw event: type.name, player.id, minute, related_players.
Events ==
    [type : TypeNames, player : PrimaryRefs, minute : Minutes, related : RelatedLists]

\* The payloads: a dict (its "events" field, its "event" field, or a dict
\* holding the events under some other field), a bare list, or something
\* that is neither (a tuple of events).
DictPayload(b) == [kind |-> "dict", key |-> "events", items |-> b]

\* The other forms are fed with at most one event.
OtherPayloads ==
    {[kind |-> k[1], key |-> k[2], items |-> b] :
        k \in {<<"dict", "event">>, <<"dict", "other">>, <<"list", "">>, <<"other", "">>},
        b \in {<<>>} \cup {<<e>> : e \in Events}}

NoData == [kind |-> "none", key |-> "", items |-> <<>>]

----------------------------------------------------------------------------
(* process_statsbomb: the normalizer                                       *)

\* str.lower(), on the letters the labels use
LowerChar(c) ==
    CASE c = "A" -> "a" [] c = "D" -> "d" [] c = "E" -> "e" [] c = "F" -> "f"
      [] c = "G" -> "g" [] c = "I" -> "i" [] c = "J" -> "j" [] c = "N" -> "n"
      [] c = "O" -> "o" [] c = "P" -> "p" [] c = "R" -> "r" [] c = "U" -> "u"
      [] OTHER -> c
Lower(txt) == [i \in 1..Len(txt) |-> LowerChar(txt[i])]

\* `sub in txt`
Contains(sub, txt) ==
    \E i \in 0..(Len(txt) - Len(sub)) : SubSeq(txt, i + 1, i + Len(sub)) = sub
\* txt.startswith(sub)
StartsWith(sub, txt) == Len(sub) <= Len(txt) /\ SubSeq(txt, 1, Len(sub)) = sub

S_goal     == <<"g", "o", "a", "l">>
S_shotgoal == <<"s", "h", "o", "t", " ", "-", " ", "g", "o", "a", "l">>
S_injur    == <<"i", "n", "j", "u", "r">>
S_injury   == <<"i", "n", "j", "u", "r", "y">>
S_injured  == <<"i", "n", "j", "u", "r", "e", "d">>
S_assist   == <<"a", "s", "s", "i", "s", "t">>
S_assister == <<"a", "s", "s", "i", "s", "t", "e", "r">>

\* line 65 / line 71 / line 91, on the lower-cased label
IsGoal(tname) == Contains(S_goal, tname) \/ Contains(S_shotgoal, tname) \/ StartsWith(S_goal, tname)
IsInjury_case_sensitive(tname, raw) ==
    Contains(S_injur, raw) \/ Contains(S_injury, raw) \/ Contains(S_injured, raw)
IsInjury(tname, raw) ==
    Contains(S_injur, tname) \/ Contains(S_injury, tname) \/ Contains(S_injured, tname)
IsAssist(role) == Contains(S_assist, role) \/ Contains(S_assister, role)

\* str(pid) of an integer id
StrOf(n) == CASE n = 0 -> "0" [] n = 1 -> "1" [] n = 2 -> "2" [] n = 3 -> "3" [] OTHER -> "?"

\* `a or b` on ids: a value Python treats as false (None, 0) gives way.
Truthy(x) == x # None /\ x # 0
\* lines 55-60 (and 82-87): the id of the referenced player, None if absent
ResolveId(ref) == IF Truthy(ref) THEN ref ELSE None

\* lines 22-26: the events of the payload
ExtractEvents_any_iterable(d) ==
    IF d.kind = "dict"
    THEN (IF d.key \in {"events", "event"} THEN d.items ELSE <<>>)
    ELSE d.items

ExtractEvents(d) ==
    IF d.kind = "dict"
    THEN (IF d.key \in {"events", "event"} THEN d.items ELSE <<>>)
    ELSE IF d.kind = "list" THEN d.items
    ELSE <<>>

\* by_player is kept as the sequence of its entries in insertion order
\* (a Python dict iterates in insertion order); each entry carries its key.
IndexOf(bp, key) ==
    IF \E i \in 1..Len(bp) : bp[i].pid = key
    THEN CHOOSE i \in 1..Len(bp) : bp[i].pid = key
    ELSE 0

\* _ensure (lines 28-34): by_player.setdefault(str(pid), zeros); nothing for None
EnsureRec_front(bp, pid) ==
    IF pid = None \/ IndexOf(bp, StrOf(pid)) # 0 THEN bp
    ELSE <<[pid |-> StrOf(pid), goals |-> 0, assists |-> 0, minutes |-> 0, injury |-> FALSE]>>
         \o bp

EnsureRec(bp, pid) ==
    IF pid = None \/ IndexOf(bp, StrOf(pid)) # 0 THEN bp
    ELSE Append(bp, [pid |-> StrOf(pid), goals |-> 0, assists |-> 0, minutes |-> 0,
                     injury |-> FALSE])

\* max(rec["minutes"], minute)
MaxMinute_sum(a, b) == a + b
MaxMinute(a, b) == IF a >= b THEN a ELSE b

\* lines 65-68 on the record of pid (created here if the lookup failed, as a
\* record that is None is skipped in the code)
CountGoal_first_only(bp, pid, minute) ==
    LET i == IndexOf(bp, StrOf(pid))
    IN  IF pid = None \/ i = 0 THEN bp
        ELSE [bp EXCEPT ![i].goals = 1, ![i].minutes = MaxMinute(@, minute)]

CountGoal(bp, pid, minute) ==
    LET i == IndexOf(bp, StrOf(pid))
    IN  IF pid = None \/ i = 0 THEN bp
        ELSE [bp EXCEPT ![i].goals = @ + 1, ![i].minutes = MaxMinute(@, minute)]

\* lines 71-73
MarkInjury(bp, pid) ==
    LET i == IndexOf(bp, StrOf(pid))
    IN  IF pid = None \/ i = 0 THEN bp ELSE [bp EXCEPT ![i].injury = TRUE]

\* lines 88-93
CountAssist(bp, rid, minute) ==
    LET i == IndexOf(bp, StrOf(rid))
    IN  IF rid = None \/ i = 0 THEN bp
        ELSE [bp EXCEPT ![i].assists = @ + 1, ![i].minutes = MaxMinute(@, minute)]

\* lines 76-93: the loop over related_players
RECURSIVE ProcessRelated(_, _, _)
ProcessRelated(bp, related, minute) ==
    IF related = <<>> THEN bp
    ELSE LET r    == Head(related)
             role == Lower(r.role)
             rid  == ResolveId(r.player)
             bp1  == EnsureRec(bp, rid)
             bp2  == IF rid # None /\ IsAssist(role) THEN CountAssist(bp1, rid, minute) ELSE bp1
         IN  ProcessRelated(bp2, Tail(related), minute)

\* lines 36-93: the body of `for ev in events`
ProcessEvent(bp, ev) ==
    LET minute == ev.minute
        tname  == Lower(ev.type)
        pid    == ResolveId(ev.player)
        bp1    == EnsureRec(bp, pid)
        bp2    == IF IsGoal(tname) THEN CountGoal(bp1, pid, minute) ELSE bp1
        bp3    == IF IsInjury(tname, ev.type) THEN MarkInjury(bp2, pid) ELSE bp2
    IN  ProcessRelated(bp3, ev.related, minute)

\* lines 36-93: the whole loop
RECURSIVE Aggregate(_, _)
Aggregate(bp, events) ==
    IF events = <<>> THEN bp ELSE Aggregate(ProcessEvent(bp, Head(events)), Tail(events))

\* lines 97-103: the StatUpdate built from an entry
MakeStat(e) ==
    [player_id |-> e.pid, goals |-> e.goals, assists |-> e.assists, minutes |-> e.minutes,
     injury |-> e.injury]

\* process_statsbomb called: lines 22-93 run without an await
ps_call(d) ==
    /\ npc \in {"idle", "done"}
    /\ data' = d
    /\ by_player' = Aggregate(<<>>, ExtractEvents(d))
    /\ emit_i' = 0
    /\ npc' = "emit"
    /\ pass' = pass + 1
    /\ UNCHANGED <<results, first_prices, engineVars, pollVars, appVars, cbVars, feedVars>>

\* lines 96-104, one turn of the emit loop, with the collecting callback of
\* the tests (results.append(s) or asyncio.sleep(0)): append, then suspend
ps_emit_collect ==
    /\ npc = "emit"
    /\ emit_i < Len(by_player)
    /\ results' = Append(results, MakeStat(by_player[emit_i + 1]))
    /\ emit_i' = emit_i + 1
    /\ UNCHANGED <<data, by_player, npc, pipeVars, engineVars, pollVars, appVars, cbVars, feedVars>>

\* the same turn with the callback of the pricing integration
\* (await engine.apply_stat(stat)): apply_stat runs up to its await
ps_emit_apply ==
    /\ npc = "emit"
    /\ emit_i < Len(by_player)
    /\ prices' \in StoreResults(prices, MakeStat(by_player[emit_i + 1]))
    /\ results' = Append(results, MakeStat(by_player[emit_i + 1]))
    /\ npc' = "await"
    /\ UNCHANGED <<data, by_player, emit_i, pipeVars>>
    /\ UNCHANGED <<base_price, pc, stat, new_price, stored, ret, pollVars, appVars, cbVars, feedVars>>

\* apply_stat returns, the callback returns, the emit loop goes on
ps_resume ==
    /\ npc = "await"
    /\ npc' = "emit"
    /\ emit_i' = emit_i + 1
    /\ UNCHANGED <<data, by_player, results, pipeVars, engineVars, pollVars, appVars, cbVars, feedVars>>

\* the emit loop is exhausted: process_statsbomb returns
ps_return ==
    /\ npc = "emit"
    /\ emit_i = Len(by_player)
    /\ npc' = "done"
    /\ first_prices' = IF pass = 1 THEN prices ELSE first_prices
    /\ UNCHANGED <<data, by_player, emit_i, results, pass, engineVars, pollVars, appVars, cbVars, feedVars>>

NormIdle ==
    /\ data = NoData
    /\ by_player = <<>>
    /\ emit_i = 0
    /\ npc = "idle"
    /\ results = <<>>
    /\ pass = 0
    /\ first_prices = <<>>

EngineIdle ==
    /\ prices = <<>>
    /\ pc = [t \in Calls |-> "idle"]
    /\ stat = [t \in Calls |-> NoStat]
    /\ new_price = [t \in Calls |-> None]
    /\ stored = [t \in Calls |-> None]
    /\ ret = [t \in Calls |-> None]

----------------------------------------------------------------------------
(* process_statsbomb: payloads as the provider may send them              *)

MaxRawEvents == 2                  \* events in one raw payload

\* A JSON value as far as lines 47-52 and 81 look at it: the kind of Python
\* value it is (tag) and its text (val).
\* ev["type"]: absent; a dict whose "name" is a string, null or a number;
\* or, instead of a dict, a bare string or a bare number.
RawTypes ==
    {[tag |-> "none", val |-> <<>>],
     [tag |-> "name_str", val |-> T_OwnGoal],
     [tag |-> "name_none", val |-> <<>>],
     [tag |-> "name_int", val |-> <<"5">>],
     [tag |-> "name_int", val |-> <<"0">>],
     [tag |-> "str", val |-> T_Injured],
     [tag |-> "int", val |-> <<"7">>]}

\* ev["minute"]: absent, an integer, a numeric string, any other string
RawMinutes ==
    {[tag |-> "none", val |-> 0], [tag |-> "int", val |-> 2],
     [tag |-> "numstr", val |-> 2], [tag |-> "badstr", val |-> 0]}

\* r["role"] of a related entry: a string, null, a number
RawRoles ==
    {[tag |-> "str", val |-> T_Assist], [tag |-> "none", val |-> <<>>],
     [tag |-> "int", val |-> <<"7">>]}

\* one entry of related_players: a dict, or something else
RawRelatedEntries ==
    {[kind |-> "dict", role |-> r, player |-> 2] : r \in RawRoles}
        \cup {[kind |-> "other", role |-> [tag |-> "none", val |-> <<>>], player |-> None]}

\* ev["related_players"]: absent, a list of one entry, or not a list
RawRelated ==
    {[tag |-> "none", items |-> <<>>], [tag |-> "notlist", items |-> <<>>]}
        \cup {[tag |-> "list", items |-> <<r>>] : r \in RawRelatedEntries}

\* the well-formed event of which the raw events are variations
RawBase ==
    [kind |-> "dict", type |-> [tag |-> "name_str", val |-> T_OwnGoal],
     player |-> 1, minute |-> [tag |-> "int", val |-> 2],
     related |-> [tag |-> "none", items |-> <<>>]]

\* Raw events: the base event with one field varied, and a non-dict item.
RawEvents ==
    {[RawBase EXCEPT !.type = t] : t \in RawTypes}
        \cup {[RawBase EXCEPT !.minute = m] : m \in RawMinutes}
        \cup {[RawBase EXCEPT !.player = p] : p \in {None, 0, 1}}
        \cup {[RawBase EXCEPT !.related = r] : r \in RawRelated}
        \cup {[RawBase EXCEPT !.kind = "other"]}

\* The raw payload: a list, or a dict whose "events" field is a list of
\* events, a string, a number, or null.
RawList(b) == [kind |-> "list", field |-> "list", items |-> b]
RawDict(f, b) == [kind |-> "dict", field |-> f, items |-> b]
RawFields == {"list", "str", "int", "none"}

\* (x or "").lower() of lines 50 and 81: a number that is not 0 has no
\* lower(); None and 0 give way to ""
LowerRaises(numeric, val) == numeric /\ val # <<"0">>

\* lines 47-52: does the type label of the event raise; and the label
TypeRaises(t) == LowerRaises(t.tag = "name_int", t.val)
TypeLabel(t) ==
    CASE t.tag \in {"name_str", "str"} -> t.val
      [] t.tag = "int" -> (IF t.val = <<"0">> THEN <<>> ELSE t.val)
      [] OTHER -> <<>>

\* line 81
RoleRaises(r) == LowerRaises(r.tag = "int", r.val)
RoleLabel(r) == IF r.tag = "str" THEN r.val ELSE <<>>

\* lines 41-44: int(...) of the minute, 0 when it cannot be converted
MinuteOf(m) == IF m.tag \in {"int", "numstr"} THEN m.val ELSE 0

\* lines 76-80: the entries of related_players the loop looks at
RelatedDicts(rel) ==
    IF rel.tag = "list" THEN SelectSeq(rel.items, LAMBDA r : r.kind = "dict") ELSE <<>>

\* does the body of the loop raise on this item (lines 36-93)
EventRaises(rev) ==
    /\ rev.kind = "dict"
    /\ \/ TypeRaises(rev.type)
       \/ \E i \in 1..Len(RelatedDicts(rev.related)) : RoleRaises(RelatedDicts(rev.related)[i].role)

\* the event as the loop resolves it
Resolved(rev) ==
    [type |-> TypeLabel(rev.type), player |-> rev.player, minute |-> MinuteOf(rev.minute),
     related |-> [i \in 1..Len(RelatedDicts(rev.related)) |->
                    [role |-> RoleLabel(RelatedDicts(rev.related)[i].role),
                     player |-> RelatedDicts(rev.related)[i].player]]]

\* lines 22-26 and 36-38: what `for ev in events` iterates over, raising
\* when events is not iterable; items that are not dicts are skipped
IterRaises(d) == d.kind = "dict" /\ d.field = "int"
RawItems(d) ==
    IF d.kind = "dict" /\ d.field # "list" THEN <<>>
    ELSE SelectSeq(d.items, LAMBDA rev : rev.kind = "dict")

PayloadRaises(d) ==
    IterRaises(d) \/ \E i \in 1..Len(RawItems(d)) : EventRaises(RawItems(d)[i])

\* process_statsbomb called with a raw payload: lines 22-93 run without an
\* await, to the emit loop or to the exception that leaves the function
ps_call_raw(d) ==
    /\ npc = "idle"
    /\ data' = d
    /\ IF PayloadRaises(d)
       THEN by_player' = <<>> /\ npc' = "raised"
       ELSE /\ by_player' = Aggregate(<<>>, [i \in 1..Len(RawItems(d)) |-> Resolved(RawItems(d)[i])])
            /\ npc' = "emit"
    /\ emit_i' = 0
    /\ pass' = pass + 1
    /\ UNCHANGED <<results, first_prices, engineVars, pollVars, appVars, cbVars, feedVars>>

----------------------------------------------------------------------------
(* LiveMatchFeed: the polling source                                       *)

NumFixtures == 2                   \* fixtures the provider knows
MaxFetch == 2                      \* events one get_fixture_events returns
MaxCycles == 2                     \* cycles of the poll loop in one run

T_Goal == <<"G", "o", "a", "l">>

\* PlayerEvent (lines 34-41), the fields the feed reads
PollEvents == [player_id : {1, 2}, event_type : {T_Goal}, minute : {1}]

\* start(fixture_ids) is given, and get_live_fixtures returns, one of these
FixtureLists == {[i \in 1..n |-> i] : n \in 0..NumFixtures}

\* line 192: f"{fixture_id}_{event.player_id}_{event.event_type}_{event.minute}",
\* as the sequence of its characters
EventKey(fid, e) ==
    <<StrOf(fid), "_", StrOf(e.player_id), "_">> \o e.event_type \o <<"_", StrOf(e.minute)>>

\* line 193: event_key in self.processed_events
IsProcessed_never(key, seen) == FALSE
IsProcessed(key, seen) == key \in seen

\* line 205: pricing_engine.prices.get(our_player_id, 1000)
DefaultPrice == 100000
PriceFor(pid) == IF pid \in DOMAIN prices THEN prices[pid] ELSE DefaultPrice

\* lines 196-206: the message of an event; player_mapping is empty, so the
\* platform id is str(event.player_id)
LiveMessage(fid, e) ==
    [type |-> "live_event", fixture_id |-> fid, player_id |-> StrOf(e.player_id),
     event |-> e.event_type, minute |-> e.minute, price |-> PriceFor(StrOf(e.player_id))]

\* lines 191-194: the first event at or after position `from` whose key is
\* not in the seen-set (0 if the loop runs off the list)
NextNew(fid, evs, from, seen) ==
    LET new == {j \in from..Len(evs) : ~IsProcessed(EventKey(fid, evs[j]), seen)}
    IN  IF new = {} THEN 0 ELSE CHOOSE j \in new : \A k \in new : j <= k

LmSet(pc2, fids2, fi2, evs2, ei2, seen2, sent2) ==
    /\ lm_pc' = pc2
    /\ lm_fids' = fids2
    /\ lm_fi' = fi2
    /\ lm_fid' = IF pc2 = "fetch" THEN fids2[fi2] ELSE lm_fid
    /\ lm_events' = evs2
    /\ lm_ei' = ei2
    /\ processed_events' = seen2
    /\ sent' = sent2

\* lines 177-183: _process_fixture has returned for fixture fi: on to the
\* next fixture of the cycle (called, and awaiting its events), or to the
\* interval sleep
FixtureDone(evs, ei) ==
    IF lm_fi < Len(lm_fids)
    THEN LmSet("fetch", lm_fids, lm_fi + 1, <<>>, 0, processed_events, sent)
    ELSE LmSet("sleep", lm_fids, lm_fi, evs, ei, processed_events, sent)

\* lines 191-206: the for loop over evs resumed at position `from`, up to
\* the await of the next broadcast or off the end of the list
ScanFrom(evs, from) ==
    LET j == NextNew(lm_fid, evs, from, processed_events)
    IN  IF j # 0
        THEN LmSet("bcast", lm_fids, lm_fi, evs, j,
                   processed_events \cup {EventKey(lm_fid, evs[j])},
                   Append(sent, LiveMessage(lm_fid, evs[j])))
        ELSE FixtureDone(evs, Len(evs) + 1)

\* lines 174-182: a cycle begins with the fixtures fids (_process_fixture
\* called for the first, awaiting its events), or goes straight to the
\* sleep if there is none
BeginCycle(fids) ==
    IF fids # <<>>
    THEN LmSet("fetch", fids, 1, <<>>, 0, processed_events, sent)
    ELSE LmSet("sleep", fids, 0, lm_events, lm_ei, processed_events, sent)

\* start(fixture_ids), lines 164-166
lm_start(fids) ==
    /\ lm_pc = "none"
    /\ lm_running' = TRUE
    /\ fixture_ids' = fids
    /\ lm_pc' = "created"
    /\ UNCHANGED <<lm_fids, lm_fi, lm_fid, lm_events, lm_ei, lm_cycle, processed_events, sent>>
    /\ UNCHANGED <<lm_held, lm_failed>>
    /\ UNCHANGED <<engineVars, normVars, pipeVars, appVars, cbVars, feedVars>>

\* the task runs `while self._running` (line 174): at its first run and
\* after each interval sleep.  With fixture ids the cycle begins; without,
\* it awaits get_live_fixtures (line 180).
lm_loop ==
    /\ lm_pc \in {"created", "sleep"}
    /\ IF ~lm_running
       THEN LmSet("ended", lm_fids, lm_fi, lm_events, lm_ei, processed_events, sent)
            /\ UNCHANGED <<lm_cycle, lm_failed>>
       ELSE /\ lm_cycle < MaxCycles
            /\ lm_cycle' = lm_cycle + 1
            /\ lm_failed' = {}
            /\ IF fixture_ids # <<>>
               THEN BeginCycle(fixture_ids)
               ELSE LmSet("live", <<>>, 0, lm_events, lm_ei, processed_events, sent)
    /\ UNCHANGED <<lm_running, lm_held, fixture_ids, engineVars, normVars, pipeVars, appVars, cbVars, feedVars>>

\* get_live_fixtures returns the live matches (lines 180-182)
lm_live_return(fids) ==
    /\ lm_pc = "live"
    /\ BeginCycle(fids)
    /\ UNCHANGED lm_failed
    /\ UNCHANGED <<lm_running, lm_held, fixture_ids, lm_cycle, engineVars, normVars, pipeVars, appVars, cbVars, feedVars>>

\* get_live_fixtures raises: caught at line 184, the loop sleeps (line 186)
lm_live_raise ==
    /\ lm_pc = "live"
    /\ LmSet("sleep", lm_fids, lm_fi, lm_events, lm_ei, processed_events, sent)
    /\ UNCHANGED lm_failed
    /\ UNCHANGED <<lm_running, lm_held, fixture_ids, lm_cycle, engineVars, normVars, pipeVars, appVars, cbVars, feedVars>>

\* get_fixture_events returns evs (line 190); the for loop runs up to its
\* first broadcast
lm_fetch_return(evs) ==
    /\ lm_pc = "fetch"
    /\ ScanFrom(evs, 1)
    /\ UNCHANGED lm_failed
    /\ UNCHANGED <<lm_running, lm_held, fixture_ids, lm_cycle, engineVars, normVars, pipeVars, appVars, cbVars, feedVars>>

\* the same error not caught in _process_fixture: it reaches line 184 and
\* the cycle is over
lm_fetch_raise_ends_cycle ==
    /\ lm_pc = "fetch"
    /\ LmSet("sleep", lm_fids, lm_fi, lm_events, lm_ei, processed_events, sent)
    /\ lm_failed' = lm_failed \cup {lm_fid}
    /\ UNCHANGED <<lm_running, lm_held, fixture_ids, lm_cycle, engineVars, normVars, pipeVars, appVars, cbVars, feedVars>>

\* get_fixture_events raises: caught at line 207, _process_fixture returns
lm_fetch_raise ==
    /\ lm_pc = "fetch"
    /\ FixtureDone(lm_events, lm_ei)
    /\ lm_failed' = lm_failed \cup {lm_fid}
    /\ UNCHANGED <<lm_running, lm_held, fixture_ids, lm_cycle, engineVars, normVars, pipeVars, appVars, cbVars, feedVars>>

\* the broadcast callback returns: the for loop goes on with the next event
lm_broadcast_return ==
    /\ lm_pc = "bcast"
    /\ ScanFrom(lm_events, lm_ei + 1)
    /\ UNCHANGED lm_failed
    /\ UNCHANGED <<lm_running, lm_held, fixture_ids, lm_cycle, engineVars, normVars, pipeVars, appVars, cbVars, feedVars>>

\* the same with line 195 placed after the broadcast: the key of the event
\* in hand has not been added when the callback raises
lm_broadcast_raise_key_after ==
    /\ lm_pc = "bcast"
    /\ IF lm_fi < Len(lm_fids)
       THEN LmSet("fetch", lm_fids, lm_fi + 1, <<>>, 0,
                  processed_events \ {EventKey(lm_fid, lm_events[lm_ei])}, sent)
       ELSE LmSet("sleep", lm_fids, lm_fi, lm_events, lm_ei,
                  processed_events \ {EventKey(lm_fid, lm_events[lm_ei])}, sent)
    /\ lm_failed' = lm_failed \cup {lm_fid}
    /\ UNCHANGED <<lm_running, lm_held, fixture_ids, lm_cycle, engineVars, normVars, pipeVars, appVars, cbVars, feedVars>>

\* the broadcast callback raises: caught at line 207, the rest of the list
\* is left
lm_broadcast_raise ==
    /\ lm_pc = "bcast"
    /\ FixtureDone(lm_events, lm_ei)
    /\ lm_failed' = lm_failed \cup {lm_fid}
    /\ UNCHANGED <<lm_running, lm_held, fixture_ids, lm_cycle, engineVars, normVars, pipeVars, appVars, cbVars, feedVars>>

\* start() on a feed that is running, lines 164-166: nothing looks at the
\* task already there; _task is overwritten with a new task (which has
\* not run yet) and the one lm_pc follows runs on with its own argument,
\* no longer held by the feed
lm_start_again ==
    /\ lm_pc \notin {"none", "ended", "cancelled"}
    /\ lm_running /\ lm_held
    /\ lm_held' = FALSE
    /\ UNCHANGED <<lm_running, lm_pc, fixture_ids, lm_fids, lm_fi, lm_fid, lm_events, lm_ei, lm_cycle,
                   processed_events, sent, lm_failed>>
    /\ UNCHANGED <<engineVars, normVars, pipeVars, appVars, cbVars, feedVars>>

\* stop(), lines 168-171: the flag is cleared and the task in _task
\* cancelled; a task that has not finished gets CancelledError at the
\* await it is suspended in, which no `except Exception` of the feed
\* catches.  A task _task no longer holds is not cancelled.
lm_stop ==
    /\ lm_pc # "none"
    /\ lm_running
    /\ lm_running' = FALSE
    /\ lm_pc' = IF lm_held /\ lm_pc \notin {"ended", "cancelled"} THEN "cancelled" ELSE lm_pc
    /\ UNCHANGED <<fixture_ids, lm_fids, lm_fi, lm_fid, lm_events, lm_ei, lm_cycle, processed_events, sent>>
    /\ UNCHANGED <<lm_held, lm_failed>>
    /\ UNCHANGED <<engineVars, normVars, pipeVars, appVars, cbVars, feedVars>>

PollIdle ==
    /\ lm_running = FALSE
    /\ lm_pc = "none"
    /\ fixture_ids = <<>>
    /\ lm_fids = <<>>
    /\ lm_fi = 0
    /\ lm_fid = 0
    /\ lm_events = <<>>
    /\ lm_ei = 0
    /\ lm_cycle = 0
    /\ processed_events = {}
    /\ sent = <<>>
    /\ lm_held = TRUE
    /\ lm_failed = {}

----------------------------------------------------------------------------
(* main.py: the subscriber list, broadcast and ws_prices                   *)

NumClients == 2                    \* websocket connections in one run
WS == 1..NumClients
MaxTicks == 2                      \* cycles of the simulator in one run

SeedPrice == 100                   \* Player.price of seed_players, in cents
CallbackDefault == 100000          \* prices.get(..., 1000.0) of pricing_callback

\* the messages a socket is sent
Snapshot == [type |-> "snapshot", seq |-> 0, player_id |-> "", price |-> SeedPrice]
PriceUpdate(n, pid) ==
    [type |-> "price_update", seq |-> n, player_id |-> pid,
     price |-> IF pid \in DOMAIN prices THEN prices[pid] ELSE CallbackDefault]

InSeq(w, cl) == \E i \in 1..Len(cl) : cl[i] = w
\* list.remove(w)
Remove(cl, w) ==
    LET i == CHOOSE k \in 1..Len(cl) : cl[k] = w /\ \A j \in 1..(k - 1) : cl[j] # w
    IN  SubSeq(cl, 1, i - 1) \o SubSeq(cl, i + 1, Len(cl))

\* ws.send_json(msg) is called on socket w: an open connection takes the
\* frame, in the order of the calls; on a closed one the call will raise
SendTo_newest_first(box, w, msg) ==
    IF conn[w] THEN [box EXCEPT ![w] = <<msg>> \o @] ELSE box
SendTo(box, w, msg) == IF conn[w] THEN [box EXCEPT ![w] = Append(@, msg)] ELSE box

\* main.py lines 35-36: `for ws in to_remove: clients.remove(ws)`;
\* list.remove raises ValueError for a socket that is not in the list
RECURSIVE RemoveEach(_, _)
RemoveEach(cl, rem) ==
    IF rem = <<>> THEN [raised |-> FALSE, cl |-> cl]
    ELSE IF ~InSeq(Head(rem), cl) THEN [raised |-> TRUE, cl |-> cl]
    ELSE RemoveEach(Remove(cl, Head(rem)), Tail(rem))

\* main.py lines 30-36: broadcast goes on from position i of the list
\* iterator with the failures rem: the next socket of `clients` as the list
\* is now is sent the message and broadcast is suspended in that send, or
\* the iterator is exhausted and the removal loop runs.
BcStep(i, rem, msg) ==
    IF i < Len(clients)
    THEN /\ bc_pc' = "send"
         /\ bc_i' = i + 1
         /\ bc_ws' = clients[i + 1]
         /\ bc_ok' = conn[clients[i + 1]]
         /\ inbox' = SendTo(inbox, clients[i + 1], msg)
         /\ bc_called' = Append(IF i = 0 THEN <<>> ELSE bc_called, clients[i + 1])
         /\ to_remove' = rem
         /\ clients' = clients
    ELSE /\ bc_pc' = IF RemoveEach(clients, rem).raised THEN "raised" ELSE "done"
         /\ clients' = RemoveEach(clients, rem).cl
         /\ bc_called' = IF i = 0 THEN <<>> ELSE bc_called
         /\ to_remove' = rem
         /\ UNCHANGED <<bc_i, bc_ws, bc_ok, inbox>>

ws_connect_snapshot_after_wait(w) ==
    /\ ws_pc[w] = "new"
    /\ clients' = Append(clients, w)
    /\ ws_pc' = [ws_pc EXCEPT ![w] = IF conn[w] THEN "snap_ok" ELSE "snap_fail"]
    /\ UNCHANGED <<inbox, conn, bc_pc, bc_i, bc_ws, bc_ok, to_remove, bc_n, bc_at_call, bc_called>>
    /\ UNCHANGED <<simVars, engineVars, normVars, pipeVars, pollVars, provVars, cbVars, feedVars>>

\* ws_prices lines 106-110: accept has returned; the socket is appended to
\* clients and the snapshot is sent, with no await in between
ws_connect(w) ==
    /\ ws_pc[w] = "new"
    /\ clients' = Append(clients, w)
    /\ inbox' = SendTo(inbox, w, Snapshot)
    /\ ws_pc' = [ws_pc EXCEPT ![w] = IF conn[w] THEN "snap_ok" ELSE "snap_fail"]
    /\ UNCHANGED <<conn, bc_pc, bc_i, bc_ws, bc_ok, to_remove, bc_n, bc_at_call, bc_called>>
    /\ UNCHANGED <<simVars, engineVars, normVars, pipeVars, pollVars, provVars, cbVars, feedVars>>

\* line 110 returns: the handler sleeps in its loop for good (lines 111-113)
ws_snapshot_return(w) ==
    /\ ws_pc[w] = "snap_ok"
    /\ ws_pc' = [ws_pc EXCEPT ![w] = "open"]
    /\ UNCHANGED <<clients, conn, inbox, bc_pc, bc_i, bc_ws, bc_ok, to_remove, bc_n, bc_at_call, bc_called>>
    /\ UNCHANGED <<simVars, engineVars, normVars, pipeVars, pollVars, provVars, cbVars, feedVars>>

\* line 110 raises WebSocketDisconnect: lines 114-116 take the socket out
ws_snapshot_disconnect(w) ==
    /\ ws_pc[w] = "snap_fail"
    /\ ws_pc' = [ws_pc EXCEPT ![w] = "gone"]
    /\ clients' = IF InSeq(w, clients) THEN Remove(clients, w) ELSE clients
    /\ UNCHANGED <<conn, inbox, bc_pc, bc_i, bc_ws, bc_ok, to_remove, bc_n, bc_at_call, bc_called>>
    /\ UNCHANGED <<simVars, engineVars, normVars, pipeVars, pollVars, provVars, cbVars, feedVars>>

\* line 110 raises something else: nothing catches it, the socket stays
ws_snapshot_error(w) ==
    /\ ws_pc[w] = "snap_fail"
    /\ ws_pc' = [ws_pc EXCEPT ![w] = "gone"]
    /\ UNCHANGED <<clients, conn, inbox, bc_pc, bc_i, bc_ws, bc_ok, to_remove, bc_n, bc_at_call, bc_called>>
    /\ UNCHANGED <<simVars, engineVars, normVars, pipeVars, pollVars, provVars, cbVars, feedVars>>

\* the peer closes the connection
ws_drop(w) ==
    /\ conn[w]
    /\ conn' = [conn EXCEPT ![w] = FALSE]
    /\ UNCHANGED <<clients, ws_pc, inbox, bc_pc, bc_i, bc_ws, bc_ok, to_remove, bc_n, bc_at_call, bc_called>>
    /\ UNCHANGED <<simVars, engineVars, normVars, pipeVars, pollVars, provVars, cbVars, feedVars>>

HubIdle ==
    /\ clients = <<>>
    /\ ws_pc = [w \in WS |-> "new"]
    /\ conn = [w \in WS |-> TRUE]
    /\ inbox = [w \in WS |-> <<>>]
    /\ bc_pc = "idle"
    /\ bc_i = 0
    /\ bc_ws = 0
    /\ bc_ok = TRUE
    /\ to_remove = <<>>
    /\ bc_n = 0
    /\ bc_at_call = <<>>
    /\ bc_called = <<>>

----------------------------------------------------------------------------
(* simulator.py and the startup / shutdown of main.py                      *)

\* the rosters a Simulator is built with: list(players.values()) in
\* main.py (one player stands for them), [] in main_db.py
Rosters == {{}, {"1"}}
\* the StatUpdates _run draws (lines 30-36): a goal for a player of the
\* roster
SimStats(roster) ==
    {[player_id |-> p, goals |-> 1, assists |-> 0, minutes |-> 0, injury |-> FALSE] :
        p \in roster}

SimPending == {"created", "sleep", "apply", "bcast"}

\* Simulator.start, lines 14-18 (called by startup, line 83)
sim_start ==
    /\ app_pc \in {"init", "up"}
    /\ app_pc' = "up"
    /\ IF sim_running
       THEN UNCHANGED <<sim_running, sim_pc>>
       ELSE sim_running' = TRUE /\ sim_pc' = "created"
    /\ UNCHANGED <<sim_players, sim_cancel, sim_stat, sim_ticks>>
    /\ UNCHANGED <<hubVars, engineVars, normVars, pipeVars, pollVars, provVars, cbVars, feedVars>>

\* the task runs for the first time: line 26, up to the sleep of line 27
sim_run ==
    /\ sim_pc = "created" /\ ~sim_cancel
    /\ sim_pc' = IF sim_running THEN "sleep" ELSE "ended"
    /\ UNCHANGED <<sim_players, sim_running, sim_cancel, sim_stat, sim_ticks, app_pc>>
    /\ UNCHANGED <<hubVars, engineVars, normVars, pipeVars, pollVars, provVars, cbVars, feedVars>>

\* the same cycle with the store of apply_stat (line 27) placed after its
\* await (line 29): nothing is stored before the suspension
sim_wake_store_after_sleep ==
    /\ sim_pc = "sleep" /\ ~sim_cancel
    /\ sim_ticks < MaxTicks
    /\ sim_ticks' = sim_ticks + 1
    /\ IF sim_players = {}
       THEN sim_pc' = "failed" /\ UNCHANGED sim_stat
       ELSE \E s \in SimStats(sim_players) : sim_stat' = s /\ sim_pc' = "apply"
    /\ UNCHANGED <<sim_players, sim_running, sim_cancel, app_pc>>
    /\ UNCHANGED <<hubVars, engineVars, normVars, pipeVars, pollVars, provVars, cbVars, feedVars>>

\* the sleep of line 27 is over: random.choice on an empty roster raises
\* IndexError (nothing in _run catches it); otherwise a stat is drawn and
\* pricing_callback called: apply_stat (main.py line 43) stores the new
\* price and is suspended in its sleep(0)
sim_wake ==
    /\ sim_pc = "sleep" /\ ~sim_cancel
    /\ sim_ticks < MaxTicks
    /\ sim_ticks' = sim_ticks + 1
    /\ IF sim_players = {}
       THEN sim_pc' = "failed" /\ UNCHANGED <<sim_stat, prices>>
       ELSE \E s \in SimStats(sim_players) :
              /\ sim_stat' = s
              /\ prices' \in StoreResults(prices, s)
              /\ sim_pc' = "apply"
    /\ UNCHANGED <<sim_players, sim_running, sim_cancel, app_pc>>
    /\ UNCHANGED <<base_price, pc, stat, new_price, stored, ret>>
    /\ UNCHANGED <<hubVars, normVars, pipeVars, pollVars, provVars, cbVars, feedVars>>

\* what the task does once pricing_callback has returned or raised: the
\* loop test of line 26 and the next sleep, or the end of the task
AfterCallback(bpc) ==
    IF bpc = "raised" THEN "failed"
    ELSE IF bpc = "send" THEN "bcast"
    ELSE IF sim_running THEN "sleep" ELSE "ended"

\* apply_stat returns: main.py lines 45-49 build the message from the
\* price map and call broadcast, which runs up to its first send
sim_broadcast ==
    /\ sim_pc = "apply" /\ ~sim_cancel
    /\ bc_n' = bc_n + 1
    /\ bc_at_call' = clients
    /\ BcStep(0, <<>>, PriceUpdate(bc_n + 1, sim_stat.player_id))
    /\ sim_pc' = AfterCallback(bc_pc')
    /\ UNCHANGED <<ws_pc, conn>>
    /\ UNCHANGED <<sim_players, sim_running, sim_cancel, sim_stat, sim_ticks, app_pc>>
    /\ UNCHANGED <<engineVars, normVars, pipeVars, pollVars, provVars, cbVars, feedVars>>

\* the send of line 32 returns, or raises and line 34 notes the socket;
\* broadcast goes on
bc_resume ==
    /\ sim_pc = "bcast" /\ ~sim_cancel
    /\ BcStep(bc_i, IF bc_ok THEN to_remove ELSE Append(to_remove, bc_ws),
              PriceUpdate(bc_n, sim_stat.player_id))
    /\ sim_pc' = AfterCallback(bc_pc')
    /\ UNCHANGED <<ws_pc, conn, bc_n, bc_at_call>>
    /\ UNCHANGED <<sim_players, sim_running, sim_cancel, sim_stat, sim_ticks, app_pc>>
    /\ UNCHANGED <<engineVars, normVars, pipeVars, pollVars, provVars, cbVars, feedVars>>

sim_stop_clearing_prices ==
    /\ app_pc = "up"
    /\ app_pc' = "down"
    /\ sim_running' = FALSE
    /\ sim_cancel' = (sim_pc \in SimPending)
    /\ prices' = <<>>
    /\ UNCHANGED <<sim_players, sim_pc, sim_stat, sim_ticks>>
    /\ UNCHANGED <<base_price, pc, stat, new_price, stored, ret>>
    /\ UNCHANGED <<hubVars, normVars, pipeVars, pollVars, provVars, cbVars, feedVars>>

\* Simulator.stop, lines 20-23 (called by shutdown, line 91): the flag is
\* cleared and the task asked to cancel; stop does not await the task
sim_stop ==
    /\ app_pc = "up"
    /\ app_pc' = "down"
    /\ sim_running' = FALSE
    /\ sim_cancel' = (sim_pc \in SimPending)
    /\ UNCHANGED <<sim_players, sim_pc, sim_stat, sim_ticks>>
    /\ UNCHANGED <<hubVars, engineVars, normVars, pipeVars, pollVars, provVars, cbVars, feedVars>>

\* the event loop runs the task after cancel(): CancelledError is thrown
\* into the await it is suspended in, and nothing on the way catches it
\* (`except Exception` of broadcast does not)
sim_cancelled ==
    /\ sim_cancel /\ sim_pc \in SimPending
    /\ sim_pc' = "cancelled"
    /\ sim_cancel' = FALSE
    /\ bc_pc' = IF sim_pc = "bcast" THEN "idle" ELSE bc_pc
    /\ UNCHANGED <<clients, ws_pc, conn, inbox, bc_i, bc_ws, bc_ok, to_remove, bc_n, bc_at_call, bc_called>>
    /\ UNCHANGED <<sim_players, sim_running, sim_stat, sim_ticks, app_pc>>
    /\ UNCHANGED <<engineVars, normVars, pipeVars, pollVars, provVars, cbVars, feedVars>>

SimIdle ==
    /\ sim_players = {}
    /\ sim_running = FALSE
    /\ sim_pc = "none"
    /\ sim_cancel = FALSE
    /\ sim_stat = NoStat
    /\ sim_ticks = 0
    /\ app_pc = "init"

----------------------------------------------------------------------------
(* data_provider.py: LiveDataProvider                                      *)

MaxStarts == 2                     \* calls of LiveDataProvider.start in one run
MaxPolls == 2                      \* sleeps one task of _poll_loop completes

\* A task of _poll_loop is "created" (scheduled, not yet run), "sleep" (in
\* the sleep of line 165), "ended" (returned) or "cancelled"; cancel() on
\* a task that is not done leaves a request the event loop delivers later.
\* polls counts the sleeps the task has completed.
LdpLive == {"created", "sleep"}
LdpTask(st, c, n) == [st |-> st, cancel |-> c, polls |-> n]

\* start, lines 146-149: no test of self.running
ldp_start ==
    /\ ldp_stop_pc = "none"
    /\ Len(ldp_tasks) < MaxStarts
    /\ ldp_running' = TRUE
    /\ ldp_tasks' = Append(ldp_tasks, LdpTask("created", FALSE, 0))
    /\ ldp_task' = Len(ldp_tasks) + 1
    /\ UNCHANGED ldp_stop_pc
    /\ UNCHANGED <<engineVars, normVars, pipeVars, pollVars, hubVars, simVars, cbVars, feedVars>>

\* task k runs for the first time (line 163), or its sleep is over and the
\* loop test of line 163 is made again
ldp_step(k) ==
    /\ ldp_tasks[k].st \in LdpLive /\ ~ldp_tasks[k].cancel
    /\ ldp_tasks[k].st = "sleep" => ldp_tasks[k].polls < MaxPolls
    /\ ldp_tasks' = [ldp_tasks EXCEPT ![k] =
                       LdpTask(IF ldp_running THEN "sleep" ELSE "ended", FALSE,
                               IF @.st = "sleep" THEN @.polls + 1 ELSE @.polls)]
    /\ UNCHANGED <<ldp_running, ldp_task, ldp_stop_pc>>
    /\ UNCHANGED <<engineVars, normVars, pipeVars, pollVars, hubVars, simVars, cbVars, feedVars>>

\* stop, lines 151-155: the flag is cleared, self.task asked to cancel, and
\* stop waits for it (line 157)
ldp_stop ==
    /\ ldp_stop_pc = "none"
    /\ ldp_running' = FALSE
    /\ IF ldp_task = 0
       THEN ldp_stop_pc' = "returned" /\ UNCHANGED ldp_tasks
       ELSE /\ ldp_stop_pc' = "await"
            /\ ldp_tasks' = [ldp_tasks EXCEPT ![ldp_task].cancel = (@ \/ ldp_tasks[ldp_task].st \in LdpLive)]
    /\ UNCHANGED ldp_task
    /\ UNCHANGED <<engineVars, normVars, pipeVars, pollVars, hubVars, simVars, cbVars, feedVars>>

\* the cancellation reaches task k: lines 168-169 catch it in the sleep
\* and leave the loop; a task that never ran is cancelled outright
ldp_cancelled(k) ==
    /\ ldp_tasks[k].st \in LdpLive /\ ldp_tasks[k].cancel
    /\ ldp_tasks' = [ldp_tasks EXCEPT ![k] =
                       LdpTask(IF @.st = "sleep" THEN "ended" ELSE "cancelled", FALSE, @.polls)]
    /\ UNCHANGED <<ldp_running, ldp_task, ldp_stop_pc>>
    /\ UNCHANGED <<engineVars, normVars, pipeVars, pollVars, hubVars, simVars, cbVars, feedVars>>

\* lines 156-159: the awaited task is done, stop returns
ldp_stop_return ==
    /\ ldp_stop_pc = "await"
    /\ ldp_tasks[ldp_task].st \notin LdpLive
    /\ ldp_stop_pc' = "returned"
    /\ UNCHANGED <<ldp_running, ldp_tasks, ldp_task>>
    /\ UNCHANGED <<engineVars, normVars, pipeVars, pollVars, hubVars, simVars, cbVars, feedVars>>

ProvIdle ==
    /\ ldp_running = FALSE
    /\ ldp_tasks = <<>>
    /\ ldp_task = 0
    /\ ldp_stop_pc = "none"

----------------------------------------------------------------------------
(* main.py: pricing_callback invoked by several callers at once            *)

\* pricing_callback line 43 is apply_stat_head: the call runs apply_stat up
\* to its sleep(0).  Lines 43-49 then: apply_stat is resumed and returns
\* (pricing_engine.py line 30), the message is built with the price read
\* from the map (line 48) and handed to broadcast, which with no
\* subscriber returns without suspending.
pricing_callback_resume(t) ==
    /\ pc[t] = "sleep"
    /\ pc' = [pc EXCEPT ![t] = "done"]
    /\ ret' = [ret EXCEPT ![t] = prices[stat[t].player_id]]
    /\ cb_price' = [cb_price EXCEPT ![t] =
                      IF stat[t].player_id \in DOMAIN prices
                      THEN prices[stat[t].player_id] ELSE CallbackDefault]
    /\ UNCHANGED <<base_price, prices, stat, new_price, stored>>
    /\ UNCHANGED <<normVars, pipeVars, pollVars, appVars, feedVars>>

CbIdle == cb_price = [t \in Calls |-> None]

----------------------------------------------------------------------------
(* statsbomb_client.py: LiveDataFeed, the replay source                    *)

MaxReplay == 2                     \* events of a loaded match
MaxRounds == 2                     \* restarts of the list in one run

\* what _process_event makes of an event (lines 246-297): "goal" is a Shot
\* with outcome Goal or a Pass with goal_assist, which is broadcast;
\* "plain" is any other event, for which _process_event returns at once
ReplayKinds == {"goal", "plain"}

LdfPending == {"created", "bcast", "sleep"}

\* start, lines 200-216: the match (the demo match if none was given) is
\* loaded, the flag set and the task created
ldf_start(evs) ==
    /\ ldf_pc = "none" /\ ldf_stop_pc = "none"
    /\ ldf_events' = evs
    /\ ldf_index' = 0
    /\ ldf_running' = TRUE
    /\ ldf_pc' = "created"
    /\ UNCHANGED <<ldf_cancel, ldf_rounds, ldf_log, ldf_sent, ldf_stop_pc>>
    /\ UNCHANGED <<engineVars, normVars, pipeVars, pollVars, appVars, cbVars>>

\* start, lines 202-212: load_match raises; start ends without a task
ldf_start_fails ==
    /\ ldf_pc = "none" /\ ldf_stop_pc = "none"
    /\ ldf_pc' = "unloaded"
    /\ UNCHANGED <<ldf_running, ldf_events, ldf_index, ldf_cancel, ldf_rounds, ldf_log,
                   ldf_sent, ldf_stop_pc>>
    /\ UNCHANGED <<engineVars, normVars, pipeVars, pollVars, appVars, cbVars>>

\* _stream_events, lines 231-244, from the start of the task or from the
\* end of the sleep of line 239 to the next await: the loop test; the next
\* event is taken and the index advanced (lines 232-233), _process_event
\* either calls broadcast_callback (line 297) or returns to the sleep; when
\* the list is exhausted the index is reset and a new task takes over
\* (lines 241-244), this one ends
ldf_step ==
    /\ ldf_pc \in {"created", "sleep"} /\ ~ldf_cancel
    /\ IF ldf_running /\ ldf_index < Len(ldf_events)
       THEN /\ ldf_index' = ldf_index + 1
            /\ ldf_log' = Append(ldf_log, ldf_index + 1)
            /\ IF ldf_events[ldf_index + 1] = "goal"
               THEN ldf_sent' = Append(ldf_sent, ldf_index + 1) /\ ldf_pc' = "bcast"
               ELSE ldf_sent' = ldf_sent /\ ldf_pc' = "sleep"
            /\ UNCHANGED ldf_rounds
       ELSE IF ldf_running
            THEN /\ ldf_rounds < MaxRounds
                 /\ ldf_rounds' = ldf_rounds + 1
                 /\ ldf_index' = 0
                 /\ ldf_pc' = "created"
                 /\ UNCHANGED <<ldf_log, ldf_sent>>
            ELSE /\ ldf_pc' = "ended"
                 /\ UNCHANGED <<ldf_index, ldf_rounds, ldf_log, ldf_sent>>
    /\ UNCHANGED <<ldf_running, ldf_events, ldf_cancel, ldf_stop_pc>>
    /\ UNCHANGED <<engineVars, normVars, pipeVars, pollVars, appVars, cbVars>>

\* the await of line 297 returns: on to the sleep of line 239
ldf_broadcast_return ==
    /\ ldf_pc = "bcast" /\ ~ldf_cancel
    /\ ldf_pc' = "sleep"
    /\ UNCHANGED <<ldf_running, ldf_events, ldf_index, ldf_cancel, ldf_rounds, ldf_log,
                   ldf_sent, ldf_stop_pc>>
    /\ UNCHANGED <<engineVars, normVars, pipeVars, pollVars, appVars, cbVars>>

\* the await of line 297 raises: neither _process_event nor _stream_events
\* catches anything, the task ends with the exception
ldf_broadcast_raise ==
    /\ ldf_pc = "bcast" /\ ~ldf_cancel
    /\ ldf_pc' = "failed"
    /\ UNCHANGED <<ldf_running, ldf_events, ldf_index, ldf_cancel, ldf_rounds, ldf_log,
                   ldf_sent, ldf_stop_pc>>
    /\ UNCHANGED <<engineVars, normVars, pipeVars, pollVars, appVars, cbVars>>

\* stop, lines 218-225: the flag is cleared, the task asked to cancel and
\* awaited; awaiting a task that has ended on an exception raises it
ldf_stop ==
    /\ ldf_stop_pc = "none"
    /\ ldf_pc # "none"
    /\ ldf_running' = FALSE
    /\ ldf_cancel' = (ldf_pc \in LdfPending)
    /\ ldf_stop_pc' = IF ldf_pc \in LdfPending THEN "await"
                      ELSE IF ldf_pc = "failed" THEN "raised" ELSE "returned"
    /\ UNCHANGED <<ldf_events, ldf_index, ldf_pc, ldf_rounds, ldf_log, ldf_sent>>
    /\ UNCHANGED <<engineVars, normVars, pipeVars, pollVars, appVars, cbVars>>

\* the event loop runs the task after cancel(): CancelledError is thrown
\* into the await it is suspended in
ldf_cancelled ==
    /\ ldf_cancel /\ ldf_pc \in LdfPending
    /\ ldf_pc' = "cancelled"
    /\ ldf_cancel' = FALSE
    /\ UNCHANGED <<ldf_running, ldf_events, ldf_index, ldf_rounds, ldf_log, ldf_sent,
                   ldf_stop_pc>>
    /\ UNCHANGED <<engineVars, normVars, pipeVars, pollVars, appVars, cbVars>>

\* stop, lines 225-227: the awaited task is cancelled, stop returns
ldf_stop_return ==
    /\ ldf_stop_pc = "await" /\ ldf_pc = "cancelled"
    /\ ldf_stop_pc' = "returned"
    /\ UNCHANGED <<ldf_running, ldf_events, ldf_index, ldf_pc, ldf_cancel, ldf_rounds,
                   ldf_log, ldf_sent>>
    /\ UNCHANGED <<engineVars, normVars, pipeVars, pollVars, appVars, cbVars>>

\* __init__, lines 183-191
FeedIdle ==
    /\ ldf_running = FALSE
    /\ ldf_events = <<>>
    /\ ldf_index = 0
    /\ ldf_pc = "none"
    /\ ldf_cancel = FALSE
    /\ ldf_rounds = 0
    /\ ldf_log = <<>>
    /\ ldf_sent = <<>>
    /\ ldf_stop_pc = "none"

----------------------------------------------------------------------------
(* Specifications                                                          *)

\* PricingEngine.__init__: no prices, the configured base price
InitEngine ==
    /\ base_price \in BasePrices
    /\ EngineIdle
    /\ NormIdle
    /\ PollIdle
    /\ HubIdle
    /\ SimIdle
    /\ ProvIdle
    /\ CbIdle
    /\ FeedIdle

NextEngine ==
    \/ \E t \in Calls, s \in StatUpdates : apply_stat_head(t, s)
    \/ \E t \in Calls : apply_stat_return(t)

SpecEngine == InitEngine /\ [][NextEngine]_vars

\* process_statsbomb with the collecting callback of the tests
InitNorm ==
    /\ base_price = DefaultBase
    /\ EngineIdle
    /\ NormIdle
    /\ PollIdle
    /\ HubIdle
    /\ SimIdle
    /\ ProvIdle
    /\ CbIdle
    /\ FeedIdle

NextNorm ==
    \/ npc = "idle" /\ \E k \in 0..MaxEvents : \E b \in [1..k -> Events] : ps_call(DictPayload(b))
    \/ npc = "idle" /\ \E d \in OtherPayloads : ps_call(d)
    \/ ps_emit_collect
    \/ ps_return

SpecNorm == InitNorm /\ [][NextNorm]_vars

\* process_statsbomb fed raw payloads, with the collecting callback
NextRaw ==
    \/ npc = "idle" /\ \E k \in 0..MaxRawEvents : \E b \in [1..k -> RawEvents] : ps_call_raw(RawList(b))
    \/ npc = "idle" /\ \E f \in RawFields : \E b \in {<<>>} \cup {<<e>> : e \in RawEvents} :
           ps_call_raw(RawDict(f, IF f = "list" THEN b ELSE <<>>))
    \/ ps_emit_collect
    \/ ps_return

SpecRaw == InitNorm /\ [][NextRaw]_vars

\* The pricing integration (integrate_statsbomb_pricing.run, the
\* integration test): a batch goes through process_statsbomb with
\* apply_stat as callback, and then the same batch goes through once more.
PipeEvents == {e \in Events : e.related = <<>>}

NextPipeline ==
    \/ npc = "idle" /\ \E k \in 0..MaxEvents : \E b \in [1..k -> PipeEvents] : ps_call(DictPayload(b))
    \/ npc = "done" /\ pass = 1 /\ ps_call(data)
    \/ ps_emit_apply
    \/ ps_resume
    \/ ps_return

SpecPipeline == InitNorm /\ [][NextPipeline]_vars

\* main.py (main_db.py) on the simulator path: the Simulator, built with
\* one of the rosters, drives pricing_callback while sockets come and go
InitApp ==
    /\ base_price = DefaultBase
    /\ EngineIdle
    /\ NormIdle
    /\ PollIdle
    /\ HubIdle
    /\ sim_players \in Rosters
    /\ sim_running = FALSE
    /\ sim_pc = "none"
    /\ sim_cancel = FALSE
    /\ sim_stat = NoStat
    /\ sim_ticks = 0
    /\ app_pc = "init"
    /\ ProvIdle
    /\ CbIdle
    /\ FeedIdle

NextApp ==
    \/ sim_start
    \/ sim_run
    \/ sim_wake
    \/ sim_broadcast
    \/ bc_resume
    \/ sim_stop
    \/ sim_cancelled
    \/ \E w \in WS : ws_connect(w)
    \/ \E w \in WS : ws_snapshot_return(w)
    \/ \E w \in WS : ws_snapshot_disconnect(w)
    \/ \E w \in WS : ws_snapshot_error(w)
    \/ \E w \in WS : ws_drop(w)

SpecApp == InitApp /\ [][NextApp]_vars

\* LiveDataProvider started and stopped by its owner
NextProvider ==
    \/ ldp_start
    \/ \E k \in 1..Len(ldp_tasks) : ldp_step(k)
    \/ ldp_stop
    \/ \E k \in 1..Len(ldp_tasks) : ldp_cancelled(k)
    \/ ldp_stop_return

SpecProvider == InitNorm /\ [][NextProvider]_vars

\* pricing_callback invoked by NumCalls callers, overlapping freely
NextCallbacks ==
    \/ \E t \in Calls : \E s \in StatUpdates : apply_stat_head(t, s)
    \/ \E t \in Calls : pricing_callback_resume(t)

SpecCallbacks == InitEngine /\ [][NextCallbacks]_vars

\* LiveDataFeed started once and stopped by its owner
NextFeed ==
    \/ ldf_pc = "none" /\ \E k \in 0..MaxReplay : \E evs \in [1..k -> ReplayKinds] : ldf_start(evs)
    \/ ldf_start_fails
    \/ ldf_step
    \/ ldf_broadcast_return
    \/ ldf_broadcast_raise
    \/ ldf_stop
    \/ ldf_cancelled
    \/ ldf_stop_return

SpecFeed == InitNorm /\ [][NextFeed]_vars

\* LiveMatchFeed over an engine that already holds a price for player "1"
\* (player "2" has none, so its messages carry the default)
InitPoll ==
    /\ base_price = DefaultBase
    /\ prices = ("1" :> 110000)
    /\ pc = [t \in Calls |-> "idle"]
    /\ stat = [t \in Calls |-> NoStat]
    /\ new_price = [t \in Calls |-> None]
    /\ stored = [t \in Calls |-> None]
    /\ ret = [t \in Calls |-> None]
    /\ NormIdle
    /\ PollIdle
    /\ HubIdle
    /\ SimIdle
    /\ ProvIdle
    /\ CbIdle
    /\ FeedIdle

NextPoll ==
    \/ \E fids \in FixtureLists : lm_start(fids)
    \/ lm_loop
    \/ \E fids \in FixtureLists : lm_live_return(fids)
    \/ lm_live_raise
    \/ lm_pc = "fetch" /\ \E k \in 0..MaxFetch : \E evs \in [1..k -> PollEvents] : lm_fetch_return(evs)
    \/ lm_fetch_raise
    \/ lm_broadcast_return
    \/ lm_broadcast_raise
    \/ lm_stop

SpecPoll == InitPoll /\ [][NextPoll]_vars

\* LiveMatchFeed whose owner may call start() a second time
NextPollTwice ==
    \/ NextPoll
    \/ lm_start_again

SpecPollTwice == InitPoll /\ [][NextPollTwice]_vars

\* the simulator and a LiveMatchFeed polling one fixture side by side on
\* one engine, each stopped by its owner at any moment (no subscriber is
\* connected, so broadcast returns without suspending)
OneFixture == <<1>>
NextCancel ==
    \/ sim_start
    \/ sim_run
    \/ sim_wake
    \/ sim_broadcast
    \/ sim_stop
    \/ sim_cancelled
    \/ lm_start(OneFixture)
    \/ lm_loop
    \/ lm_pc = "fetch" /\ \E k \in 0..MaxFetch : \E evs \in [1..k -> PollEvents] : lm_fetch_return(evs)
    \/ lm_fetch_raise
    \/ lm_broadcast_return
    \/ lm_broadcast_raise
    \/ lm_stop

SpecCancel == InitApp /\ [][NextCancel]_vars

----------------------------------------------------------------------------
(* Claims about PricingEngine (checked under SpecEngine)                   *)

\* The pricing rule as the specification words it, on a prior price P in
\* cents, in milli: (P*0.7 if injury else P) + 100*goals + 50*assists +
\* 0.1*minutes.
PricingRule(P, s) ==
    (((IF s.injury THEN 7 * P ELSE 10 * P) + 100000 * s.goals) + 50000 * s.assists)
        + 100 * s.minutes

\* The price apply_stat finds for pid: the stored one, the base price if none.
PriorPrice(pr, pid) == IF pid \in DOMAIN pr THEN pr[pid] ELSE base_price

\* The calls already made for player p, in the order they were made.
RECURSIVE CallsFor(_, _)
CallsFor(p, n) ==
    IF n = 0 THEN <<>>
    ELSE IF pc[n] # "idle" /\ stat[n].player_id = p
         THEN Append(CallsFor(p, n - 1), n)
         ELSE CallsFor(p, n - 1)

\* The prices a sequence of stats can lead to from the prices Ps, applied
\* one after another.
RECURSIVE FoldRule(_, _)
FoldRule(Ps, ss) ==
    IF ss = <<>> THEN Ps
    ELSE FoldRule(UNION {Round2(PricingRule(P, Head(ss))) : P \in Ps}, Tail(ss))

Orderings(S) ==
    {f \in [1..Cardinality(S) -> S] : \A i, j \in 1..Cardinality(S) : f[i] = f[j] => i = j}

\* C1: every apply_stat stores, as the player's new price,
\* round((P*0.7 if injury else P) + 100*goals + 50*assists + 0.1*minutes, 2)
\* of the price P the player had before the call (the base price if none):
\* the penalty multiplies P only, never the delta.
C1_ApplyStoresRule ==
    [][\A t \in Calls :
         (pc[t] = "idle" /\ pc'[t] = "sleep") =>
            LET s == stat'[t]
            IN  /\ s.player_id \in DOMAIN prices'
                /\ prices'[s.player_id] \in
                       Round2(PricingRule(PriorPrice(prices, s.player_id), s))]_vars

\* C1 witness: from base 1000.00 an injured player with a goal, an assist
\* and 45 minutes is stored at 700 + 100 + 50 + 4.5 = 854.50.
C1_Witness ==
    /\ base_price = 100000
    /\ pc[1] = "sleep"
    /\ stat[1] = [player_id |-> "1", goals |-> 1, assists |-> 1, minutes |-> 45, injury |-> TRUE]
    /\ prices["1"] = 85450

\* C2: a fresh engine holds no price; a player has an entry exactly when a
\* call was made for them; the price stored by the k-th call for a player is
\* the rule applied to the price stored by the (k-1)-th (the base price for
\* k = 1), and the entry holds what the last call stored.
C2_PricesPersist ==
    \A p \in Pids :
        LET ts == CallsFor(p, NumCalls)
        IN  /\ (p \in DOMAIN prices) <=> (ts # <<>>)
            /\ \A k \in 1..Len(ts) :
                 stored[ts[k]] \in
                     Round2(PricingRule(IF k = 1 THEN base_price ELSE stored[ts[k - 1]],
                                        stat[ts[k]]))
            /\ ts # <<>> => prices[p] = stored[ts[Len(ts)]]

\* C2 witness: two single-goal applies for one player from base 1000.00, the
\* first returned 1100.00 before the second stored 1200.00.
C2_Witness ==
    /\ base_price = 100000
    /\ pc[1] = "done" /\ pc[2] = "done"
    /\ stat[1] = [player_id |-> "1", goals |-> 1, assists |-> 0, minutes |-> 0, injury |-> FALSE]
    /\ stat[2] = stat[1]
    /\ ret[1] = 110000 /\ ret[2] = 120000
    /\ prices["1"] = 120000

\* C3: whatever the interleaving of the calls in flight, a player's stored
\* price is the rule applied to the stats of all calls made for that player,
\* one at a time in some order: no call's update is lost.
C3_NoLostUpdate ==
    \A p \in Pids :
        LET S == {t \in Calls : pc[t] # "idle" /\ stat[t].player_id = p}
        IN  IF S = {} THEN p \notin DOMAIN prices
            ELSE /\ p \in DOMAIN prices
                 /\ \E f \in Orderings(S) :
                      prices[p] \in
                          FoldRule({base_price}, [k \in 1..Cardinality(S) |-> stat[f[k]]])

\* C3 witness: two calls for the same player overlapped (the second stored
\* its price while the first was suspended at its await), and both returned.
C3_Witness ==
    /\ pc[1] = "done" /\ pc[2] = "done"
    /\ stat[1].player_id = stat[2].player_id
    /\ stored[1] # stored[2]
    /\ ret[1] = stored[2]
    /\ prices[stat[1].player_id] = stored[2]

----------------------------------------------------------------------------
(* Claims about process_statsbomb (checked under SpecNorm)                 *)

\* The event batch of the payload in hand: the list under its events field
\* ("events", or "event"), or the bare list itself.
HasEventsField == data.kind = "dict" /\ data.key \in {"events", "event"}
Batch == IF HasEventsField \/ data.kind = "list" THEN data.items ELSE <<>>

SetMax(S) == CHOOSE x \in S : \A y \in S : y <= x

\* Event k names player p (a string id) as its primary athlete.
PrimaryIs(k, p) == Truthy(Batch[k].player) /\ StrOf(Batch[k].player) = p
\* Entry j of event k's related players names player p.
RelatedIs(k, j, p) ==
    Truthy(Batch[k].related[j].player) /\ StrOf(Batch[k].related[j].player) = p
LabelHas(txt, sub) == Contains(sub, Lower(txt))

GoalEventsOf(p) == {k \in 1..Len(Batch) : PrimaryIs(k, p) /\ LabelHas(Batch[k].type, S_goal)}
InjuryEventsOf(p) == {k \in 1..Len(Batch) : PrimaryIs(k, p) /\ LabelHas(Batch[k].type, S_injur)}
RelatedEntries == UNION {{<<k, j>> : j \in 1..Len(Batch[k].related)} : k \in 1..Len(Batch)}
AssistEntriesOf(p) ==
    {e \in RelatedEntries :
        RelatedIs(e[1], e[2], p) /\ LabelHas(Batch[e[1]].related[e[2]].role, S_assist)}
\* every event that refers to p, as primary athlete or as a related one
EventsOf(p) ==
    {k \in 1..Len(Batch) :
        PrimaryIs(k, p) \/ \E j \in 1..Len(Batch[k].related) : RelatedIs(k, j, p)}

\* The ids a batch refers to, event by event (the primary athlete, then the
\* related ones), as strings, null and zero ids left out.
RECURSIVE RefsOfRelated(_)
RefsOfRelated(rel) ==
    IF rel = <<>> THEN <<>>
    ELSE (IF Truthy(Head(rel).player) THEN <<StrOf(Head(rel).player)>> ELSE <<>>)
         \o RefsOfRelated(Tail(rel))
RECURSIVE RefsOf(_)
RefsOf(evs) ==
    IF evs = <<>> THEN <<>>
    ELSE (IF Truthy(Head(evs).player) THEN <<StrOf(Head(evs).player)>> ELSE <<>>)
         \o RefsOfRelated(Head(evs).related) \o RefsOf(Tail(evs))
\* a sequence without its repetitions, first occurrences kept
RECURSIVE FirstSeen(_)
FirstSeen(q) ==
    IF q = <<>> THEN <<>>
    ELSE LET front == FirstSeen(SubSeq(q, 1, Len(q) - 1))
             last  == q[Len(q)]
         IN  IF \E i \in 1..Len(front) : front[i] = last THEN front ELSE Append(front, last)

EmittedIds == [i \in 1..Len(results) |-> results[i].player_id]
\* the players with a goal event, an injury event or an assist role
MatchedPlayers ==
    {p \in {StrOf(n) : n \in 0..3} :
        GoalEventsOf(p) # {} \/ InjuryEventsOf(p) # {} \/ AssistEntriesOf(p) # {}}

\* C6 as claimed: for a player with several events in the batch, the
\* emitted minutes is the maximum minute marker over all of that player's
\* events.
C6_MinutesMaxOverAllEvents ==
    \A i \in 1..Len(results) :
        LET K == EventsOf(results[i].player_id)
        IN  Cardinality(K) >= 2 => results[i].minutes = SetMax({Batch[k].minute : k \in K})

\* C6 amended: the emitted minutes is the maximum minute marker over the
\* player's goal events and the events holding an assist entry for the
\* player (0 when there are none), never their sum; injury events and
\* events that match nothing do not count.
C6_MinutesMaxOverCounted ==
    \A i \in 1..Len(results) :
        LET p == results[i].player_id
            K == GoalEventsOf(p) \cup {e[1] : e \in AssistEntriesOf(p)}
        IN  results[i].minutes = SetMax({0} \cup {Batch[k].minute : k \in K})

\* C6 witness: a player with goals at minutes 2 and 1 is emitted with
\* minutes 2 (the sum would be 3).
C6_Witness ==
    /\ Len(Batch) = 2
    /\ Batch[1].type = T_OwnGoal /\ Batch[1].player = 1 /\ Batch[1].minute = 2
    /\ Batch[2].type = T_OwnGoal /\ Batch[2].player = 1 /\ Batch[2].minute = 1
    /\ \E i \in 1..Len(results) :
         results[i].player_id = "1" /\ results[i].goals = 2 /\ results[i].minutes = 2

\* C7: the emitted goals is the number of events of the batch whose
\* lower-cased type label contains "goal" and whose primary athlete is the
\* player; the emitted assists is the number of related-athlete entries that
\* name the player with a role containing "assist".
C7_GoalsAndAssistsCount ==
    \A i \in 1..Len(results) :
        /\ results[i].goals = Cardinality(GoalEventsOf(results[i].player_id))
        /\ results[i].assists = Cardinality(AssistEntriesOf(results[i].player_id))

\* C7 witness: two goal events of player 1, each with an assist entry for
\* player 2: both are emitted with a count of 2.
C7_Witness ==
    /\ npc = "done"
    /\ Len(results) = 2
    /\ results[1].player_id = "1" /\ results[1].goals = 2 /\ results[1].assists = 0
    /\ results[2].player_id = "2" /\ results[2].goals = 0 /\ results[2].assists = 2

\* C8 as claimed: when process_statsbomb has returned, exactly the players
\* with a matching event (a goal event, an injury event or an assist role)
\* were emitted, once each.
C8_OnePerMatchedPlayer ==
    npc = "done" =>
        /\ {results[i].player_id : i \in 1..Len(results)} = MatchedPlayers
        /\ Len(results) = Cardinality(MatchedPlayers)

\* C8 amended: exactly one StatUpdate is emitted for each player the batch
\* refers to by a non-null, non-zero id, as primary athlete of any event or
\* in any related entry, matching or not, in the order of first reference.
C8_OnePerReferencedPlayer ==
    /\ npc = "emit" => EmittedIds = SubSeq(FirstSeen(RefsOf(Batch)), 1, emit_i)
    /\ npc = "done" => EmittedIds = FirstSeen(RefsOf(Batch))

\* C8 witness: player 2 is first seen in a non-assist related entry of
\* player 1's pass, then scores: emitted are "1" (all zeros), then "2".
C8_Witness ==
    /\ npc = "done"
    /\ Len(Batch) = 2
    /\ Batch[1].type = T_Pass /\ Batch[1].player = 1
    /\ Batch[1].related = <<[role |-> T_Foul, player |-> 2]>>
    /\ Batch[2].type = T_OwnGoal /\ Batch[2].player = 2 /\ Batch[2].related = <<>>
    /\ EmittedIds = <<"1", "2">>
    /\ results[1].goals = 0 /\ results[1].assists = 0 /\ ~results[1].injury

\* C9: the emitted injury flag is true exactly when one of the player's
\* events has a type label containing "injur" in any letter case; a later
\* event of the batch does not clear it.
C9_InjuryIffInjuryEvent ==
    \A i \in 1..Len(results) :
        results[i].injury <=> (InjuryEventsOf(results[i].player_id) # {})

\* C9 witness: "INJURED" for player 1, then a goal of player 1: the flag is
\* still set in the StatUpdate, next to the goal.
C9_Witness ==
    /\ Len(Batch) = 2
    /\ Batch[1].type = T_Injured /\ Batch[1].player = 1
    /\ Batch[2].type = T_OwnGoal /\ Batch[2].player = 1
    /\ Len(results) >= 1
    /\ results[1].player_id = "1" /\ results[1].injury /\ results[1].goals = 1

\* C10: the callback is not invoked when the payload holds no event
\* objects for process_statsbomb: an empty events list, a dict without an
\* events field, or a payload that is neither a dict nor a list; a dict
\* with an events field and a bare list are both read, so the players
\* their events name are emitted.
C10_NoEventsNoCallback ==
    /\ (npc # "idle" /\ (data.items = <<>> \/ (~HasEventsField /\ data.kind # "list")))
          => results = <<>> /\ by_player = <<>>
    /\ (npc = "done" /\ (HasEventsField \/ data.kind = "list"))
          => Len(results) = Len(FirstSeen(RefsOf(data.items)))

\* C10 witness: a payload that is neither a dict nor a list (a tuple) and
\* carries a goal event: process_statsbomb returned without a callback.
C10_Witness ==
    /\ npc = "done"
    /\ data.kind = "other"
    /\ Len(data.items) = 1
    /\ data.items[1].type = T_OwnGoal /\ data.items[1].player = 1
    /\ results = <<>>

----------------------------------------------------------------------------
(* Claims about the pricing pipeline (checked under SpecPipeline)          *)

\* C4 as claimed: once an already-processed batch has gone through
\* normalization and pricing a second time, every athlete's price is what
\* it was after the first pass.
C4_SecondPassKeepsPrices ==
    (pass = 2 /\ npc = "done") => prices = first_prices

----------------------------------------------------------------------------
(* Claims about LiveMatchFeed (checked under SpecPoll)                     *)

\* what identifies the event of a message: fixture, player, type, minute
MsgEvent(m) == <<m.fixture_id, m.player_id, m.event, m.minute>>
EventId(fid, e) == <<fid, StrOf(e.player_id), e.event_type, e.minute>>
\* the key of the event of a message
MsgKey(m) ==
    <<StrOf(m.fixture_id), "_", m.player_id, "_">> \o m.event \o <<"_", StrOf(m.minute)>>
\* how far the for loop over the fetched events has got
Scanned == IF lm_pc = "bcast" THEN lm_ei ELSE lm_ei - 1

\* C5: an event whose key is in the seen-set produces no broadcast and no
\* price change, whether seen in an earlier cycle or earlier in the batch:
\* no two messages handed to broadcast are of the same event, every event
\* the loop has passed has its one message, the seen-set holds exactly the
\* keys of the events let through (none is ever removed), and the price
\* map is what it was.
C5_SeenKeySuppressed ==
    /\ \A i, j \in 1..Len(sent) : MsgEvent(sent[i]) = MsgEvent(sent[j]) => i = j
    /\ processed_events = {MsgKey(sent[i]) : i \in 1..Len(sent)}
    /\ \A k \in 1..Len(lm_events) :
         k <= Scanned => \E i \in 1..Len(sent) : MsgEvent(sent[i]) = EventId(lm_fid, lm_events[k])
    /\ prices = ("1" :> 110000)

\* C5 witness: in the second cycle fixture 1 returned the same event of
\* player 1 twice; the loop has passed both and one message exists.
C5_Witness ==
    /\ lm_pc = "sleep" /\ lm_cycle = 2
    /\ fixture_ids = <<1>>
    /\ lm_events = <<[player_id |-> 1, event_type |-> T_Goal, minute |-> 1],
                     [player_id |-> 1, event_type |-> T_Goal, minute |-> 1]>>
    /\ lm_ei = 3
    /\ Len(sent) = 1 /\ sent[1].player_id = "1" /\ sent[1].price = 110000

----------------------------------------------------------------------------
(* Claims about raw payloads (checked under SpecRaw)                       *)

\* C11 as claimed: for every payload, whatever is missing, null or of the
\* wrong type in it, process_statsbomb completes without raising.
C11_NeverRaises == npc # "raised"

----------------------------------------------------------------------------
(* Claims about broadcast and ws_prices (checked under SpecApp)            *)

\* how many times the broadcast in hand has called send_json on socket w
TimesCalled(w) == Cardinality({k \in 1..Len(bc_called) : bc_called[k] = w})
\* w was in `clients` when broadcast was called and still is, and no send
\* to it has failed
RegisteredThroughout(w) ==
    InSeq(w, bc_at_call) /\ InSeq(w, clients) /\ ~InSeq(w, to_remove)

\* C12 as claimed: when a broadcast in which a delivery failed is over,
\* every other registered subscriber has been sent the message exactly
\* once, and when it has returned no failed subscriber is in the list.
C12_OthersStillSentOnce ==
    (bc_pc \in {"done", "raised"} /\ to_remove # <<>>) =>
        /\ \A w \in WS : RegisteredThroughout(w) => TimesCalled(w) = 1
        /\ bc_pc = "done" => \A k \in 1..Len(to_remove) : ~InSeq(to_remove[k], clients)

\* C13 as claimed: whatever connects or disconnects meanwhile, broadcast
\* never raises into pricing_callback, and so the task of a source that
\* has players to draw from never ends on an exception.
C13_BroadcastNeverRaises ==
    /\ bc_pc # "raised"
    /\ sim_players # {} => sim_pc # "failed"

\* C14: the first message a socket is sent is its snapshot; every
\* price_update comes after it, and there is one snapshot only.
C14_SnapshotFirst ==
    \A w \in WS : \A k \in 1..Len(inbox[w]) :
        (inbox[w][k].type = "snapshot") <=> (k = 1)

\* C14 witness: socket 2 registered while a broadcast was under way (it
\* was not in the list when broadcast was called), that broadcast reached
\* it, and its price_update came second, after the snapshot.
C14_Witness ==
    /\ ~InSeq(2, bc_at_call) /\ InSeq(2, bc_called)
    /\ Len(inbox[2]) = 2
    /\ inbox[2][1].type = "snapshot"
    /\ inbox[2][2].type = "price_update" /\ inbox[2][2].seq = bc_n

----------------------------------------------------------------------------
(* Claims about the sources                                                *)

\* C15 as claimed (checked under SpecProvider): start() on a source that
\* is running creates no second task, so a source has at most one live
\* background task.
C15_AtMostOneLiveTask ==
    Cardinality({k \in 1..Len(ldp_tasks) : ldp_tasks[k].st \in LdpLive}) <= 1

\* C16 as claimed (checked under SpecApp): once shutdown, and with it the
\* stop() of the source, has returned, the background task of the source
\* has finished and is no longer pending.
C16_StopReleasesTask == app_pc = "down" => sim_pc \notin SimPending

\* C17 as claimed (checked under SpecApp): an error raised during a cycle
\* is caught inside the loop of the source; while the source is running
\* its task never ends on an exception.
C17_ErrorNeverEndsTask == sim_running => sim_pc # "failed"

\* the price a player had when the feed was started
PriceAtStart(pid) == IF pid = "1" THEN 110000 ELSE base_price
GoalStat(pid) == [player_id |-> pid, goals |-> 1, assists |-> 0, minutes |-> 0, injury |-> FALSE]

\* C18 as claimed (checked under SpecPoll): an event that is let through
\* has the pricing rule applied once to the athlete's stored price before
\* its message is broadcast, and the message carries the result: the first
\* message of a player carries the rule applied to the price the player
\* started with, and the price map holds it.
C18_RuleAppliedBeforeBroadcast ==
    \A i \in 1..Len(sent) :
        (\A j \in 1..(i - 1) : sent[j].player_id # sent[i].player_id) =>
            /\ sent[i].price \in Round2(PricingRule(PriceAtStart(sent[i].player_id),
                                                    GoalStat(sent[i].player_id)))
            /\ sent[i].player_id \in DOMAIN prices

\* C19 (checked under SpecApp): a step that changes the price map is the
\* step of apply_stat that stores the rule's result for the stat in hand
\* (on the base price where the player had no entry), changing that one
\* entry; no entry is ever deleted.  The simulator, pricing_callback,
\* broadcast and ws_prices leave the map as it is.
C19_OnlyEngineWrites ==
    [][prices' # prices =>
         /\ sim_pc = "sleep" /\ sim_pc' = "apply"
         /\ DOMAIN prices' = DOMAIN prices \cup {sim_stat'.player_id}
         /\ \A p \in DOMAIN prices : p # sim_stat'.player_id => prices'[p] = prices[p]
         /\ prices'[sim_stat'.player_id] \in
                Round2(PricingRule(PriorPrice(prices, sim_stat'.player_id), sim_stat'))]_vars

\* C19 witness: the engine has written the price of player 1, a
\* price_update that reads it has reached socket 1, broadcast has returned
\* and shutdown has run.
C19_Witness ==
    /\ DOMAIN prices = {"1"}
    /\ prices["1"] = 110000
    /\ bc_pc = "done" /\ app_pc = "down"
    /\ Len(inbox[1]) = 2 /\ inbox[1][2].player_id = "1" /\ inbox[1][2].price = 110000

\* C20 as claimed (checked under SpecEngine): the value apply_stat returns
\* is the price this very call stored, also with other calls in flight.
C20_ReturnsOwnStore == \A t \in Calls : pc[t] = "done" => ret[t] = stored[t]

----------------------------------------------------------------------------
(* Claims about the subscriber list while a broadcast is under way         *)

\* C21 as claimed (checked under SpecApp): while broadcast is suspended in
\* a send, no step changes the subscriber list; the list changes only in
\* the step that ends the iteration, where broadcast takes the failed
\* sockets out after its last delivery attempt.
C21_ListFrozenDuringBroadcast ==
    [][(bc_pc = "send" /\ bc_pc' \notin {"done", "raised"}) => clients' = clients]_vars

\* the price the engine holds for player p: the entry, the base price of
\* _ensure where there is none yet
EnginePrice(p) == IF p \in DOMAIN prices THEN prices[p] ELSE base_price

\* C22 as claimed (checked under SpecApp): the snapshot a connecting
\* socket is sent reports, for every tracked athlete, the price the
\* PricingEngine holds at that moment.
C22_SnapshotHasEnginePrices ==
    [][\A w \in WS :
         (ws_pc[w] = "new" /\ ws_pc'[w] = "snap_ok") =>
             \A p \in sim_players :
                 inbox'[w][Len(inbox'[w])].price = EnginePrice(p)]_vars


\* the price of a player after n goals of the simulator, from the base price
RECURSIVE AfterGoals(_, _)
AfterGoals(p, n) ==
    IF n = 0 THEN {base_price}
    ELSE UNION {Round2(PricingRule(P, GoalStat(p))) : P \in AfterGoals(p, n - 1)}

\* the price_update messages socket w was sent, in the order of arrival
Updates(w) == SelectSeq(inbox[w], LAMBDA m : m.type = "price_update")

\* C24 (checked under SpecApp): the updates of the one source are applied
\* in the order it produced them, the n-th message carrying the price after
\* the first n of them, and a socket receives its price_update messages in
\* that order: the numbers of the messages in its inbox only go up.
C24_OneSourceInOrder ==
    \A w \in WS :
        /\ \A i \in 1..Len(Updates(w)) :
               Updates(w)[i].price \in AfterGoals(Updates(w)[i].player_id, Updates(w)[i].seq)
        /\ \A i, j \in 1..Len(Updates(w)) :
               i < j => Updates(w)[i].seq < Updates(w)[j].seq

\* C24 witness: socket 1 stayed connected over two cycles of the simulator
\* and holds both price_update messages, the first before the second.
C24_Witness ==
    /\ conn[1] /\ Len(Updates(1)) = 2
    /\ Updates(1)[1].seq = 1 /\ Updates(1)[1].price = 110000
    /\ Updates(1)[2].seq = 2 /\ Updates(1)[2].price = 120000
    /\ prices["1"] = 120000


\* C23 as claimed (checked under SpecCallbacks): every price_update
\* message carries the price that applying its own stat to the player's
\* prior price gave, with any number of callers in pricing_callback at once.
C23_MessageCarriesOwnResult ==
    \A t \in Calls : cb_price[t] # None => cb_price[t] = stored[t]


----------------------------------------------------------------------------
(* Claims about the replay source (checked under SpecFeed)                 *)

\* the events are taken in list order, the first of the list after the last
InListOrder ==
    \A k \in 1..Len(ldf_log) :
        ldf_log[k] = IF k = 1 \/ ldf_log[k - 1] = Len(ldf_events)
                     THEN 1 ELSE ldf_log[k - 1] + 1

\* C25 as claimed: while the replay source is running its events are
\* processed in list order, event_index stays within 0..len(events), after
\* the last event the first comes next, and the source never stops on its
\* own: as long as _running is set its task has not ended.
C25_ReplayLoopsForever ==
    /\ ldf_index \in 0..Len(ldf_events)
    /\ InListOrder
    /\ ldf_running => ldf_pc \in LdfPending


----------------------------------------------------------------------------
(* Claims about stopping and cancelling the sources                        *)

\* C26 as claimed (checked under SpecPollTwice): once stop() has been
\* called on the source, no task created by any earlier start() hands a
\* message to the broadcast callback any more.
C26_NothingAfterStop ==
    [][(lm_pc # "none" /\ ~lm_running) => sent' = sent]_vars

\* C27 (checked under SpecCancel): when a source has been cancelled, at
\* whichever await it was suspended in, the price of every player is the
\* complete result of the pricing rule for all the stats drawn so far (the
\* base price if none), never a value in between, and the seen-set holds
\* exactly the keys of the events handed to broadcast.
C27_CancelLeavesWholeResults ==
    (sim_pc = "cancelled" \/ lm_pc = "cancelled") =>
        /\ \A p \in sim_players : EnginePrice(p) \in AfterGoals(p, sim_ticks)
        /\ DOMAIN prices \subseteq sim_players
        /\ processed_events = {MsgKey(sent[i]) : i \in 1..Len(sent)}

\* C27 witness: the simulator was cancelled inside apply_stat, after the
\* store and before any broadcast, and the feed was cancelled in the
\* broadcast of the first of two events: the price is the whole result
\* 1100.00 and the seen-set holds the key of that one event.
C27_Witness ==
    /\ sim_pc = "cancelled" /\ sim_ticks = 1 /\ bc_n = 0
    /\ prices = ("1" :> 110000)
    /\ lm_pc = "cancelled" /\ lm_failed = {}
    /\ Len(lm_events) = 2 /\ lm_ei = 1 /\ lm_events[1] # lm_events[2]
    /\ Len(sent) = 1
    /\ processed_events = {EventKey(1, lm_events[1])}


----------------------------------------------------------------------------
(* Claims about errors in the polling source (checked under SpecPoll)      *)

\* the step in which _process_fixture catches an exception
FixtureFails == lm_pc \in {"fetch", "bcast"} /\ lm_failed' # lm_failed

\* C28: the key of an event is in the seen-set when its message is handed
\* to broadcast, and no key is handed over twice in the whole run; when the
\* broadcast raises, the event in hand stays marked (it is not sent again
\* on a later poll) and the events after it are left as they were, neither
\* sent nor marked, for the next poll.
C28_KeyMarkedBeforeBroadcast ==
    /\ [](/\ \A i \in 1..Len(sent) : MsgKey(sent[i]) \in processed_events
          /\ \A i, j \in 1..Len(sent) : MsgKey(sent[i]) = MsgKey(sent[j]) => i = j
          /\ lm_pc = "bcast" => /\ sent[Len(sent)] = LiveMessage(lm_fid, lm_events[lm_ei])
                                /\ EventKey(lm_fid, lm_events[lm_ei]) \in processed_events)
    /\ [][(FixtureFails /\ lm_pc = "bcast") =>
             /\ sent' = sent
             /\ processed_events' = processed_events
             /\ lm_pc' \in {"fetch", "sleep"}]_vars

\* C28 witness: the broadcast of the first of two different events of
\* fixture 1 raised; the loop is in its interval sleep, the first event is
\* marked, and the second was neither sent nor marked.
C28_Witness ==
    /\ lm_pc = "sleep" /\ lm_failed = {1} /\ lm_fid = 1
    /\ Len(lm_events) = 2 /\ lm_ei = 1
    /\ lm_events[1] # lm_events[2]
    /\ Len(sent) = 1 /\ sent[1] = LiveMessage(1, lm_events[1])
    /\ processed_events = {EventKey(1, lm_events[1])}

\* C29: an error in one fixture, in its fetch or in the broadcast of one
\* of its events, ends that fixture only: the next fixture of the cycle is
\* taken up in the same cycle, after the last the loop goes to its interval
\* sleep; a cycle that reaches the sleep has gone through all its fixtures.
C29_ErrorStaysInFixture ==
    /\ []((lm_pc = "sleep" /\ lm_fids # <<>>) => lm_fi = Len(lm_fids))
    /\ [][FixtureFails =>
             /\ lm_cycle' = lm_cycle
             /\ lm_fids' = lm_fids
             /\ IF lm_fi < Len(lm_fids)
                THEN lm_pc' = "fetch" /\ lm_fi' = lm_fi + 1 /\ lm_fid' = lm_fids[lm_fi + 1]
                ELSE lm_pc' = "sleep"]_vars

\* C29 witness: in the first cycle the fetch of fixture 1 raised, and the
\* cycle went on to fixture 2, an event of which has been broadcast.
C29_Witness ==
    /\ lm_cycle = 1 /\ lm_failed = {1}
    /\ lm_fids = <<1, 2>> /\ lm_fi = 2 /\ lm_pc = "bcast"
    /\ sent = <<LiveMessage(2, lm_events[1])>>


----------------------------------------------------------------------------
(* Claims about the sign of prices (checked under SpecEngine)              *)

====
